---- MODULE Spec2Model ----
(***************************************************************************)
(* The request pipeline of the arXiv client: Client.Search folds the       *)
(* registered interceptors around doSearch, doSearch calls RawSearch, and  *)
(* RawSearch runs the rate-limited, retry-governed loop of HTTP exchanges. *)
(* One behaviour of Spec is one Search call on one client; one behaviour   *)
(* of SpecNav is one Search, SearchNext or SearchPrevious call; one        *)
(* behaviour of SpecQuery builds a SearchQuery, encodes it and parses the  *)
(* encoding; one behaviour of SpecIter is one range loop over a SearchIter *)
(* sequence; one behaviour of SpecFn is one call of Validate,              *)
(* isRetryableError or calculateBackoff.                                   *)
(***************************************************************************)
EXTENDS Integers, Sequences, FiniteSets, TLC

(***************************************************************************)
(* Bounds of the model.                                                    *)
(***************************************************************************)
MaxAttemptsBound == 3
MaxInterceptors == 2

(***************************************************************************)
(* Program constants.                                                      *)
(***************************************************************************)
MaxResultsLimit == 2000
StartLimit == 30000
StatusOK == 200
StatusBadRequest == 400
StatusServiceUnavailable == 503
MutatedMaxResults == 100

(***************************************************************************)
(* Values.                                                                 *)
(***************************************************************************)
Err(k, b) == [kind |-> k, by |-> b]
NoErr == Err("nil", 0)
CtxErr(c) == Err(IF c = "deadline" THEN "context.DeadlineExceeded" ELSE "context.Canceled", 0)
UrlErr(c) == Err(IF c = "deadline" THEN "url.DeadlineExceeded" ELSE "url.Canceled", 0)
TimeoutErr == Err("url.Timeout", 0)
FatalErr == Err("url.Fatal", 0)
WaitErr == Err("rate.Wait", 0)
DecodeErr == Err("xml.Decode", 0)

Feed(t, s, n, e) == [TotalResults |-> t, StartIndex |-> s, ItemsPerPage |-> n, Entries |-> e]
NoFeed == Feed(0, 0, 0, <<>>)

FeedResponse(s, d, f) == [present |-> TRUE, status |-> s, decodable |-> d, feed |-> f]
Response(s, d) == FeedResponse(s, d, NoFeed)
NoResponse == [present |-> FALSE, status |-> 0, decodable |-> FALSE, feed |-> NoFeed]

SearchParams(s, m) == [Start |-> s, MaxResults |-> m]
ZeroParams == SearchParams(0, 0)

Page(k, b, p, t, s, n) ==
    [kind |-> k, by |-> b, Params |-> p, TotalResults |-> t, StartIndex |-> s, ItemsPerPage |-> n,
     Entries |-> <<>>]
SearchResults(k, b, p) == Page(k, b, p, 0, 0, 0)
EmptyResults == SearchResults("empty", 0, ZeroParams)

Result(p, e) == [page |-> p, err |-> e]

Rat(n, d) == [num |-> n, den |-> d]

RetryConfig(n, i, x, m) ==
    [set |-> TRUE, MaxAttempts |-> n, InitialInterval |-> i, MaxInterval |-> x, Multiplier |-> m]
NoRetryConfig ==
    [set |-> FALSE, MaxAttempts |-> 0, InitialInterval |-> 0, MaxInterval |-> 0,
     Multiplier |-> Rat(0, 1)]

(***************************************************************************)
(* Inputs.                                                                 *)
(***************************************************************************)
InterceptorKinds == {"pass", "mutate", "offset", "replace", "cache", "fail"}
StatusCodes == {StatusOK, StatusBadRequest, StatusServiceUnavailable}
ParamChoices == {SearchParams(0, 10), SearchParams(0, MaxResultsLimit + 1), SearchParams(StartLimit + 1, 10)}
RetryConfigs ==
    {NoRetryConfig} \cup
    {RetryConfig(n, i, 40, Rat(2, 1)) : n \in (-1)..MaxAttemptsBound, i \in {0, 10}}
JitterSamples == {0, 2, 3}
JitterDenominator == 4

SeqsUpTo(S, n) == UNION {[1..k -> S] : k \in 0..n}

VARIABLES
    interceptors,   \* Client.interceptors: kinds of the registered interceptors
    retryConfig,    \* Client.RetryConfig
    hasLimiter,     \* Client.rateLimiter != nil
    ctx,            \* the caller's context: "active", "cancelled", "deadline"
    pc,             \* position of the Search call
    chain,          \* the composed searchFunc: registration indices, outermost first
    level,          \* position in the chain of the function now running
    params,         \* params as seen by the function now running
    attempt,        \* RawSearch loop counter
    lastResponse,   \* RawSearch lastResponse
    lastErr,        \* RawSearch lastErr
    backoff,        \* RawSearch backoff of the pending or last sleep
    parked,         \* the select of the backoff was entered with a live context
    openBodies,     \* response bodies delivered and not yet closed
    exchanges,      \* outcome of every physical exchange of the call, in order
    events,         \* entries and exits of interceptors and of doSearch, in order
    result,         \* what the function that last returned has returned
    cancelledAt,    \* exchanges made when the context ended during a pending sleep, else -1
    callerParams,   \* the SearchParams value held by the caller of Search
    received,       \* params received by each function of the chain entered so far
    searches,       \* params of every Search call made, in order
    waits,          \* calls of rateLimiter.Wait
    nav,            \* the entry point called: "search", "next" or "previous"
    navPage,        \* the page handed to SearchNext / SearchPrevious
    nodes,          \* SearchQuery.nodes of the builder
    wire,           \* the string String() returned
    parsed,         \* what ParseSearchQuery returned for wire
    calls,          \* the builder calls made, in order
    qpc,            \* position of the query scenario
    ipc,            \* position of the SearchIter sequence
    cursor,         \* entries of the current page already handed to yield
    yielded,        \* the entries the consumer has received, in order
    pages,          \* the response of every successful Search of the sequence, in order
    stopped,        \* the consumer's yield has returned false
    traversals,     \* how each traversal began and the index of its first Search
    fpc,            \* position of the function call scenario
    args,           \* the arguments of the function called
    ret             \* what the function returned

vars == <<interceptors, retryConfig, hasLimiter, ctx, pc, chain, level, params, attempt,
          lastResponse, lastErr, backoff, parked, openBodies, exchanges, events, result,
          cancelledAt, callerParams, received, searches, waits, nav, navPage,
          nodes, wire, parsed, calls, qpc, ipc, cursor, yielded, pages, stopped,
          traversals, fpc, args, ret>>

navVars == <<nav, navPage>>
queryVars == <<nodes, wire, parsed, calls, qpc>>
iterVars == <<ipc, cursor, yielded, pages, stopped, traversals>>
fnVars == <<fpc, args, ret>>
config == <<interceptors, retryConfig, hasLimiter>>
loopVars == <<attempt, lastResponse, lastErr, backoff, parked>>

(***************************************************************************)
(* SearchParams.Validate                                                   *)
(***************************************************************************)
Validate_maxResultsOnly(p) ==
    IF p.MaxResults > MaxResultsLimit THEN Err("maxResults cannot exceed 2000", 0) ELSE NoErr

Validate_startFirst(p) ==
    IF p.Start > StartLimit THEN Err("start cannot exceed 30000", 0)
    ELSE IF p.MaxResults > MaxResultsLimit THEN Err("maxResults cannot exceed 2000", 0)
    ELSE NoErr

Validate(p) ==
    IF p.MaxResults > MaxResultsLimit THEN Err("maxResults cannot exceed 2000", 0)
    ELSE IF p.Start > StartLimit THEN Err("start cannot exceed 30000", 0)
    ELSE NoErr

(***************************************************************************)
(* isRetryableError                                                        *)
(***************************************************************************)
RetryableStatuses == {429, 408, 500, 502, 503, 504}

isRetryableError_clientErrors(err, response) ==
    \/ err.kind \in {"context.DeadlineExceeded", "url.DeadlineExceeded", "url.Timeout"}
    \/ response.present /\ response.status >= 400

isRetryableError_anyError(err, response) ==
    \/ err # NoErr
    \/ response.present /\ response.status \in RetryableStatuses

isRetryableError(err, response) ==
    \/ /\ err # NoErr
       /\ \/ err.kind \in {"context.DeadlineExceeded", "url.DeadlineExceeded"}
          \/ err.kind = "url.Timeout"
    \/ /\ response.present
       /\ response.status \in RetryableStatuses

(***************************************************************************)
(* calculateBackoff.  Durations are whole numbers of one unit, as          *)
(* time.Duration is; the float64 values in between are kept as exact       *)
(* fractions; r = k / JitterDenominator is the value drawn from            *)
(* rand.Float64(); the conversion back to a Duration truncates.            *)
(***************************************************************************)
RECURSIVE Pow(_, _)
Pow(b, e) == IF e <= 0 THEN 1 ELSE b * Pow(b, e - 1)

Truncate(n, d) == IF n >= 0 THEN n \div d ELSE -((-n) \div d)

Exceeds(x, y) == x.num * y.den > y.num * x.den

backoffBeforeJitter_uncapped(a, cfg) ==
    Rat(cfg.InitialInterval * Pow(cfg.Multiplier.num, a - 1), Pow(cfg.Multiplier.den, a - 1))

backoffBeforeJitter_fromAttempt(a, cfg) ==
    LET raw == Rat(cfg.InitialInterval * Pow(cfg.Multiplier.num, a), Pow(cfg.Multiplier.den, a))
    IN  IF Exceeds(raw, Rat(cfg.MaxInterval, 1)) THEN Rat(cfg.MaxInterval, 1) ELSE raw

backoffBeforeJitter(a, cfg) ==
    LET raw == Rat(cfg.InitialInterval * Pow(cfg.Multiplier.num, a - 1),
                   Pow(cfg.Multiplier.den, a - 1))
    IN  IF Exceeds(raw, Rat(cfg.MaxInterval, 1)) THEN Rat(cfg.MaxInterval, 1) ELSE raw

calculateBackoff_halfJitter(a, cfg, k) ==
    IF ~cfg.set \/ a <= 0 THEN 0
    ELSE LET b == backoffBeforeJitter(a, cfg)
         IN  Truncate(b.num * (2 * JitterDenominator + 2 * k - JitterDenominator),
                      b.den * 2 * JitterDenominator)

calculateBackoff(a, cfg, k) ==
    IF ~cfg.set \/ a <= 0 THEN 0
    ELSE LET b == backoffBeforeJitter(a, cfg)
         IN  Truncate(b.num * (10 * JitterDenominator + 2 * k - JitterDenominator),
                      b.den * 10 * JitterDenominator)

(***************************************************************************)
(* RawSearch: the number of attempts and the retry decision.               *)
(***************************************************************************)
maxAttempts_retries(cfg) ==
    IF cfg.set /\ cfg.MaxAttempts > 0 THEN cfg.MaxAttempts + 1 ELSE 1

maxAttempts_default(cfg) ==
    IF ~cfg.set THEN 3 ELSE IF cfg.MaxAttempts > 0 THEN cfg.MaxAttempts ELSE 1

maxAttempts(cfg) ==
    IF cfg.set /\ cfg.MaxAttempts > 0 THEN cfg.MaxAttempts ELSE 1

IsSuccess_anyResponse(err, response) ==
    err = NoErr /\ response.present

IsSuccess(err, response) ==
    err = NoErr /\ response.present /\ response.status = StatusOK

SuccessErr_stale(le) == le

SuccessErr(le) == NoErr

ShouldRetry(a, cfg, err, response) ==
    a < maxAttempts(cfg) /\ isRetryableError(err, response)

(***************************************************************************)
(* The select of the backoff sleep, taken when the context is done.        *)
(***************************************************************************)
SleepInterrupted_lastErr(c, le) == le

SleepInterrupted(c, le) == CtxErr(c)

(***************************************************************************)
(* Where the loop continues after a sleep: the next iteration of the for   *)
(* loop of RawSearch, inside the doSearch at the bottom of the chain.      *)
(***************************************************************************)
NextAttempt_reenter(n) == [pc |-> "enter", level |-> 1]

NextAttempt_skipWait(n) == [pc |-> "request", level |-> n + 1]

NextAttempt(n) == [pc |-> "ratelimit", level |-> n + 1]

(***************************************************************************)
(* doSearch, after RawSearch has returned (response, err).                 *)
(***************************************************************************)
ParseResponse(feed) ==
    [Page("decoded", 0, ZeroParams, feed.TotalResults, feed.StartIndex, feed.ItemsPerPage)
        EXCEPT !.Entries = feed.Entries]

doSearchResult(response, err, p) ==
    IF err # NoErr THEN Result(EmptyResults, err)
    ELSE IF ~response.decodable THEN Result(EmptyResults, DecodeErr)
    ELSE Result([ParseResponse(response.feed) EXCEPT !.Params = p], NoErr)

(***************************************************************************)
(* Client.Search: the fold of the interceptors around doSearch.            *)
(***************************************************************************)
RECURSIVE Wrap(_, _)
Wrap(i, searchFunc) == IF i < 1 THEN searchFunc ELSE Wrap(i - 1, <<i>> \o searchFunc)

RECURSIVE WrapForward(_, _, _)
WrapForward(i, n, searchFunc) ==
    IF i > n THEN searchFunc ELSE WrapForward(i + 1, n, <<i>> \o searchFunc)

BuildChain_forward(ics) == WrapForward(1, Len(ics), <<>>)

BuildChain(ics) == Wrap(Len(ics), <<>>)

(***************************************************************************)
(* The interceptors.                                                       *)
(***************************************************************************)
CallsNext_always(kind) == TRUE

CallsNext(kind) == kind \in {"pass", "mutate", "offset", "replace"}

ParamsForNext_dropped(kind, p) == p

ParamsForNext(kind, p) ==
    IF kind = "mutate" THEN [p EXCEPT !.MaxResults = MutatedMaxResults]
    ELSE IF kind = "offset" THEN [p EXCEPT !.Start = StartLimit + 1]
    ELSE p

ShortCircuit_wrapped(kind, i, p) ==
    IF kind = "cache" THEN Result(SearchResults("cached", i, ZeroParams), NoErr)
    ELSE Result(EmptyResults, Err("wrapped", i))

ShortCircuit(kind, i, p) ==
    IF kind = "cache" THEN Result(SearchResults("cached", i, ZeroParams), NoErr)
    ELSE Result(EmptyResults, Err("interceptor", i))

AfterNext(kind, i, p, res) ==
    CASE kind \in {"cache", "fail"} -> ShortCircuit(kind, i, p)
      [] kind = "replace" /\ res.err # NoErr -> Result(EmptyResults, Err("replaced", i))
      [] OTHER -> res

(***************************************************************************)
(* Init: a client as NewClient and its options construct it, a context and *)
(* the params of the call; nothing has run yet.                            *)
(***************************************************************************)
NoPage == Page("none", 0, ZeroParams, 0, 0, 0)
NoParse == [ok |-> FALSE, nodes |-> <<>>]

InitCall ==
    /\ ctx = "active"
    /\ pc = "idle"
    /\ chain = <<>>
    /\ level = 0
    /\ attempt = 0
    /\ lastResponse = NoResponse
    /\ lastErr = NoErr
    /\ backoff = 0
    /\ parked = FALSE
    /\ openBodies = 0
    /\ exchanges = <<>>
    /\ events = <<>>
    /\ result = Result(EmptyResults, NoErr)
    /\ cancelledAt = -1
    /\ received = <<>>
    /\ searches = <<>>
    /\ waits = 0

InitNoQuery ==
    /\ nodes = <<>>
    /\ wire = <<>>
    /\ parsed = NoParse
    /\ calls = <<>>
    /\ qpc = "off"

InitNoIter ==
    /\ ipc = "off"
    /\ cursor = 0
    /\ yielded = <<>>
    /\ pages = <<>>
    /\ stopped = FALSE
    /\ traversals = <<>>

InitNoFn ==
    /\ fpc = "off"
    /\ args = <<>>
    /\ ret = <<>>

Init ==
    /\ interceptors \in SeqsUpTo(InterceptorKinds, MaxInterceptors)
    /\ retryConfig \in RetryConfigs
    /\ hasLimiter \in BOOLEAN
    /\ callerParams \in ParamChoices
    /\ params = callerParams
    /\ nav = "search"
    /\ navPage = NoPage
    /\ InitCall
    /\ InitNoQuery
    /\ InitNoIter
    /\ InitNoFn

(***************************************************************************)
(* The caller cancels the context, or its deadline passes.                 *)
(***************************************************************************)
Cancel ==
    /\ pc # "done"
    /\ ctx = "active"
    /\ ctx' \in {"cancelled", "deadline"}
    /\ cancelledAt' = IF pc = "backoff" /\ parked THEN Len(exchanges) ELSE cancelledAt
    /\ UNCHANGED <<config, pc, chain, level, params, loopVars, openBodies, exchanges,
                   events, result, callerParams, received, searches, waits, navVars,
                   queryVars, iterVars, fnVars>>

(***************************************************************************)
(* Client.Search: build the chain and call it.                             *)
(***************************************************************************)
SearchCall(p) ==
    /\ chain' = BuildChain(interceptors)
    /\ level' = 1
    /\ pc' = "enter"
    /\ params' = p
    /\ received' = <<p>>
    /\ searches' = Append(searches, p)

Search ==
    /\ pc = "idle"
    /\ nav = "search"
    /\ SearchCall(callerParams)
    /\ UNCHANGED <<config, ctx, loopVars, openBodies, exchanges, events, result,
                   cancelledAt, callerParams, waits, navVars, queryVars, iterVars, fnVars>>

(***************************************************************************)
(* The wrapper at position level of the chain calls its interceptor, which *)
(* either calls next or returns without it.                                *)
(***************************************************************************)
InterceptorCall ==
    /\ pc = "enter"
    /\ level <= Len(chain)
    /\ LET i == chain[level]
           kind == interceptors[i]
       IN  IF CallsNext(kind)
           THEN /\ events' = Append(events, <<"before", i>>)
                /\ params' = ParamsForNext(kind, params)
                /\ received' = Append(received, params')
                /\ level' = level + 1
                /\ UNCHANGED <<pc, result>>
           ELSE /\ events' = events \o <<<<"before", i>>, <<"after", i>>>>
                /\ result' = ShortCircuit(kind, i, params)
                /\ level' = level - 1
                /\ pc' = "return"
                /\ UNCHANGED <<params, received>>
    /\ UNCHANGED <<config, ctx, chain, loopVars, openBodies, exchanges, cancelledAt,
                   callerParams, searches, waits, navVars, queryVars, iterVars, fnVars>>

(***************************************************************************)
(* next has returned to the interceptor at position level.                 *)
(***************************************************************************)
InterceptorReturn ==
    /\ pc = "return"
    /\ level >= 1
    /\ LET i == chain[level]
       IN  /\ events' = Append(events, <<"after", i>>)
           /\ result' = AfterNext(interceptors[i], i, params, result)
    /\ level' = level - 1
    /\ UNCHANGED <<config, ctx, pc, chain, params, loopVars, openBodies, exchanges,
                   cancelledAt, callerParams, received, searches, waits, navVars,
                   queryVars, iterVars, fnVars>>

(***************************************************************************)
(* The outermost function has returned: Search returns to its caller.      *)
(***************************************************************************)
SearchReturn ==
    /\ pc = "return"
    /\ level = 0
    /\ pc' = "done"
    /\ UNCHANGED <<config, ctx, chain, level, params, loopVars, openBodies, exchanges,
                   events, result, cancelledAt, callerParams, received, searches, waits,
                   navVars, queryVars, iterVars, fnVars>>

(***************************************************************************)
(* RawSearch returns (response, err) to doSearch, which closes and decodes *)
(* the body and returns to the innermost interceptor.                      *)
(***************************************************************************)
deferredClose_skipped(err, open) == open

deferredClose(err, open) == IF err = NoErr THEN open - 1 ELSE open

closeBeforeRetry_skipped(response, open) == open

closeBeforeRetry(response, open) == IF response.present THEN open - 1 ELSE open

ReturnFromRawSearch(response, err, open) ==
    /\ result' = doSearchResult(response, err, params)
    /\ openBodies' = deferredClose(err, open)
    /\ pc' = "return"
    /\ level' = Len(chain)

(***************************************************************************)
(* doSearch is entered: RawSearch validates the params and starts its loop.*)
(***************************************************************************)
DoSearch ==
    /\ pc = "enter"
    /\ level = Len(chain) + 1
    /\ events' = Append(events, <<"doSearch", 0>>)
    /\ IF Validate(params) # NoErr
       THEN /\ ReturnFromRawSearch(NoResponse, Validate(params), openBodies)
            /\ UNCHANGED attempt
       ELSE /\ attempt' = 1
            /\ pc' = "ratelimit"
            /\ UNCHANGED <<level, result, openBodies>>
    /\ UNCHANGED <<config, ctx, chain, params, lastResponse, lastErr, backoff, parked,
                   exchanges, cancelledAt, callerParams, received, searches, waits,
                   navVars, queryVars, iterVars, fnVars>>

(***************************************************************************)
(* The loop condition and the top of the loop body: the rate limiter's     *)
(* Wait, which fails when the context is done.                             *)
(***************************************************************************)
RateLimit ==
    /\ pc = "ratelimit"
    /\ IF attempt > maxAttempts(retryConfig)
       THEN ReturnFromRawSearch(lastResponse, lastErr, openBodies)
       ELSE IF hasLimiter /\ ctx # "active"
       THEN ReturnFromRawSearch(NoResponse, WaitErr, openBodies)
       ELSE /\ pc' = "request"
            /\ UNCHANGED <<level, result, openBodies>>
    /\ waits' = IF attempt <= maxAttempts(retryConfig) /\ hasLimiter THEN waits + 1 ELSE waits
    /\ UNCHANGED <<config, ctx, chain, params, loopVars, exchanges, events, cancelledAt,
                   callerParams, received, searches, navVars, queryVars, iterVars, fnVars>>

(***************************************************************************)
(* What one exchange can deliver: a response of any status and body, or a  *)
(* transport error; with the context done, the context's error.            *)
(***************************************************************************)
EntriesAt(s, n) == [i \in 1..n |-> s + i]

IterTotals == {0, 3}
IterSizes == {0, 2}
IterFeeds(p) ==
    UNION {{Feed(t, s, n, <<>>), Feed(t, s, n, EntriesAt(s, 2))} :
              t \in IterTotals, s \in {p.Start, 0}, n \in IterSizes}

Feeds == IF ipc = "off" THEN {NoFeed} ELSE IterFeeds(params)

Outcomes(c) ==
    IF c # "active" THEN {[response |-> NoResponse, err |-> UrlErr(c)]}
    ELSE {[response |-> Response(s, d), err |-> NoErr] : s \in StatusCodes, d \in BOOLEAN}
         \cup {[response |-> FeedResponse(StatusOK, TRUE, f), err |-> NoErr] : f \in Feeds}
         \cup {[response |-> NoResponse, err |-> e] : e \in {TimeoutErr, FatalErr}}

(***************************************************************************)
(* One physical exchange (DoGetRequest / DoPostRequest) and the rest of    *)
(* the loop body up to the sleep.                                          *)
(***************************************************************************)
Request ==
    /\ pc = "request"
    /\ \E o \in Outcomes(ctx), k \in JitterSamples :
        LET open == IF o.response.present THEN openBodies + 1 ELSE openBodies
        IN  /\ exchanges' = Append(exchanges, [response |-> o.response, err |-> o.err,
                                                 params |-> params])
            /\ IF IsSuccess(o.err, o.response)
               THEN /\ ReturnFromRawSearch(o.response, SuccessErr(lastErr), open)
                    /\ UNCHANGED loopVars
               ELSE /\ lastErr' = o.err
                    /\ lastResponse' = o.response
                    /\ IF ShouldRetry(attempt, retryConfig, o.err, o.response)
                       THEN /\ openBodies' = closeBeforeRetry(o.response, open)
                            /\ backoff' = calculateBackoff(attempt, retryConfig, k)
                            /\ IF backoff' > 0
                               THEN /\ pc' = "backoff"
                                    /\ parked' = (ctx = "active")
                                    /\ UNCHANGED <<attempt, level>>
                               ELSE /\ attempt' = attempt + 1
                                    /\ pc' = NextAttempt(Len(chain)).pc
                                    /\ level' = NextAttempt(Len(chain)).level
                                    /\ UNCHANGED parked
                            /\ UNCHANGED result
                       ELSE /\ ReturnFromRawSearch(o.response, o.err, open)
                            /\ UNCHANGED <<attempt, backoff, parked>>
    /\ UNCHANGED <<config, ctx, chain, params, events, cancelledAt, callerParams,
                   received, searches, waits, navVars, queryVars, iterVars, fnVars>>

(***************************************************************************)
(* The select of the sleep: the timer fires.  With the context done this   *)
(* can only happen when both were ready as the select was entered.         *)
(***************************************************************************)
BackoffElapsed ==
    /\ pc = "backoff"
    /\ ctx = "active" \/ ~parked
    /\ attempt' = attempt + 1
    /\ pc' = NextAttempt(Len(chain)).pc
    /\ level' = NextAttempt(Len(chain)).level
    /\ UNCHANGED <<config, ctx, chain, params, lastResponse, lastErr, backoff, parked,
                   openBodies, exchanges, events, result, cancelledAt, callerParams,
                   received, searches, waits, navVars, queryVars, iterVars, fnVars>>

(***************************************************************************)
(* The select of the sleep: ctx.Done() is taken.                           *)
(***************************************************************************)
BackoffCancelled ==
    /\ pc = "backoff"
    /\ ctx # "active"
    /\ ReturnFromRawSearch(NoResponse, SleepInterrupted(ctx, lastErr), openBodies)
    /\ UNCHANGED <<config, ctx, chain, params, loopVars, exchanges, events, cancelledAt,
                   callerParams, received, searches, waits, navVars, queryVars, iterVars, fnVars>>

Next ==
    \/ Cancel
    \/ Search
    \/ InterceptorCall
    \/ InterceptorReturn
    \/ SearchReturn
    \/ DoSearch
    \/ RateLimit
    \/ Request
    \/ BackoffElapsed
    \/ BackoffCancelled

Spec == Init /\ [][Next]_vars

(***************************************************************************)
(* Vocabulary of the properties.                                           *)
(***************************************************************************)
NextOnceKinds == {"pass", "mutate", "offset", "replace"}
TransparentKinds == {"pass", "mutate", "offset"}
Done == pc = "done"
NumExchanges == Len(exchanges)
LastExchange == exchanges[Len(exchanges)]
Registered == DOMAIN interceptors
AllCallNext == \A i \in Registered : interceptors[i] \in NextOnceKinds
AllTransparent == \A i \in Registered : interceptors[i] \in TransparentKinds
CoreEntered == \E k \in DOMAIN events : events[k][1] = "doSearch"
RetryableStatus(o) == o.response.present /\ o.response.status \in {408, 429, 500, 502, 503, 504}
RetryableOutcome(o) == RetryableStatus(o) \/ o.err.kind \in {"url.Timeout", "url.DeadlineExceeded"}
OkOutcome(o) == o.err = NoErr /\ o.response.present /\ o.response.status = 200
Entries(i) == Cardinality({k \in DOMAIN events : events[k] = <<"before", i>>})
Ran(i) == \E k \in DOMAIN events : events[k][2] = i
\* the outermost interceptor that returns without calling next, 0 if none
FirstShort ==
    IF AllCallNext THEN 0
    ELSE CHOOSE i \in Registered :
            /\ interceptors[i] \notin NextOnceKinds
            /\ \A j \in 1..(i - 1) : interceptors[j] \in NextOnceKinds
ReplacersOutside(i) == {j \in 1..(i - 1) : interceptors[j] = "replace"}
Min(S) == CHOOSE x \in S : \A y \in S : x <= y
ExpectedOrder(n) ==
    [k \in 1..(2 * n + 1) |->
        IF k <= n THEN <<"before", k>>
        ELSE IF k = n + 1 THEN <<"doSearch", 0>>
        ELSE <<"after", 2 * n + 2 - k>>]

(***************************************************************************)
(* C1: with MaxAttempts = N >= 1, a live context and a transport that      *)
(* answers every exchange with a retryable status, a Search call whose     *)
(* valid params reach RawSearch has made exactly N exchanges when it       *)
(* returns.                                                                *)
(***************************************************************************)
RetryExhaustsAllAttempts ==
    ( /\ Done
      /\ ctx = "active"
      /\ CoreEntered
      /\ Validate(params) = NoErr
      /\ retryConfig.set /\ retryConfig.MaxAttempts >= 1
      /\ \A k \in DOMAIN exchanges : RetryableStatus(exchanges[k]) )
    => NumExchanges = retryConfig.MaxAttempts

RetryExhaustsAllAttemptsWitness ==
    /\ Done
    /\ ctx = "active"
    /\ retryConfig.set /\ retryConfig.MaxAttempts = 3
    /\ NumExchanges = 3
    /\ \A k \in DOMAIN exchanges : RetryableStatus(exchanges[k])

(***************************************************************************)
(* C2: when the first exchange ends with an outcome that is not retryable  *)
(* (a status outside the retryable set, or an error that is neither a      *)
(* timeout nor a deadline), no second exchange is ever made, whatever      *)
(* MaxAttempts is.                                                         *)
(***************************************************************************)
NonRetryableStopsAtOne ==
    (NumExchanges >= 1 /\ ~RetryableOutcome(exchanges[1])) => NumExchanges = 1

NonRetryableStopsAtOneWitness ==
    /\ Done
    /\ retryConfig.set /\ retryConfig.MaxAttempts = 3
    /\ NumExchanges = 1
    /\ exchanges[1].response.present /\ exchanges[1].response.status = 400

(***************************************************************************)
(* C3: when the last exchange of the call ended with a non-OK status and   *)
(* the call returned on it, Search returns a non-nil error.                *)
(***************************************************************************)
FinalFailureSurfaced ==
    ( /\ Done
      /\ AllTransparent
      /\ NumExchanges >= 1
      /\ LastExchange.response.present
      /\ LastExchange.response.status # 200 )
    => result.err # NoErr

(***************************************************************************)
(* C4: an exchange answered with status OK is the last one of the call,    *)
(* and when its body decodes Search returns the decoded page and a nil     *)
(* error, whatever retryable failures came before it.                      *)
(***************************************************************************)
SuccessAfterRetries ==
    \A k \in DOMAIN exchanges :
        OkOutcome(exchanges[k]) =>
            /\ k = NumExchanges
            /\ \A j \in 1..(k - 1) : RetryableOutcome(exchanges[j])
            /\ (Done /\ AllTransparent /\ exchanges[k].response.decodable) =>
                    /\ result.err = NoErr
                    /\ result.page.kind = "decoded"

SuccessAfterRetriesWitness ==
    /\ Done
    /\ ctx = "active"
    /\ NumExchanges = 3
    /\ exchanges[1].err = TimeoutErr
    /\ RetryableStatus(exchanges[2])
    /\ OkOutcome(exchanges[3]) /\ exchanges[3].response.decodable
    /\ result.err = NoErr

(***************************************************************************)
(* C5: once the context ends while a backoff sleep is pending, no further  *)
(* exchange is made and the call returns the context's error.              *)
(***************************************************************************)
CancelDuringSleep ==
    cancelledAt >= 0 =>
        /\ NumExchanges = cancelledAt
        /\ pc \notin {"ratelimit", "request"}
        /\ (Done /\ AllTransparent) => result.err = CtxErr(ctx)

CancelDuringSleepWitness ==
    /\ Done
    /\ cancelledAt = 1
    /\ ctx = "deadline"
    /\ RetryableStatus(exchanges[1])
    /\ result.err = CtxErr("deadline")

(***************************************************************************)
(* C6: the number of exchanges never exceeds max(1, MaxAttempts), and      *)
(* never exceeds 1 when no RetryConfig is set.                             *)
(***************************************************************************)
AttemptsBounded ==
    NumExchanges <= (IF retryConfig.set /\ retryConfig.MaxAttempts > 1
                     THEN retryConfig.MaxAttempts ELSE 1)

AttemptsBoundedWitness ==
    /\ Done
    /\ ~retryConfig.set
    /\ NumExchanges = 1
    /\ RetryableStatus(exchanges[1])

(***************************************************************************)
(* C7: when every registered interceptor calls next once, a Search call    *)
(* enters I1..In in registration order, then doSearch, then leaves In..I1. *)
(***************************************************************************)
InterceptorOrder ==
    (Done /\ AllCallNext) => events = ExpectedOrder(Len(interceptors))

InterceptorOrderWitness ==
    /\ Done
    /\ Len(interceptors) = 2
    /\ AllCallNext
    /\ events = <<<<"before", 1>>, <<"before", 2>>, <<"doSearch", 0>>,
                  <<"after", 2>>, <<"after", 1>>>>

(***************************************************************************)
(* C8: when an interceptor returns without calling next, nothing inside it *)
(* runs (no inner interceptor, no doSearch, no exchange), and through      *)
(* outer interceptors that hand results on unchanged Search returns what   *)
(* that interceptor returned.                                              *)
(***************************************************************************)
ShortCircuitSkipsTransport ==
    FirstShort # 0 =>
        /\ exchanges = <<>>
        /\ ~CoreEntered
        /\ \A j \in Registered : j > FirstShort => ~Ran(j)
        /\ (Done /\ \A j \in 1..(FirstShort - 1) : interceptors[j] \in TransparentKinds) =>
              IF interceptors[FirstShort] = "cache"
              THEN result = Result(SearchResults("cached", FirstShort, ZeroParams), NoErr)
              ELSE result = Result(EmptyResults, Err("interceptor", FirstShort))

ShortCircuitSkipsTransportWitness ==
    /\ Done
    /\ interceptors = <<"pass", "cache">>
    /\ result.page.kind = "cached"
    /\ Ran(2)

(***************************************************************************)
(* C9: an interceptor is never entered twice in one Search call, and when  *)
(* every interceptor calls next once each has been entered exactly once    *)
(* when Search returns, however many exchanges the retry loop made.        *)
(***************************************************************************)
ChainEnteredOnce ==
    \A i \in Registered :
        /\ Entries(i) <= 1
        /\ (Done /\ AllCallNext) => Entries(i) = 1

ChainEnteredOnceWitness ==
    /\ Done
    /\ Len(interceptors) = 2
    /\ AllCallNext
    /\ NumExchanges = 3
    /\ Entries(1) = 1 /\ Entries(2) = 1

(***************************************************************************)
(* C10: when an interceptor returns an error of its own without calling    *)
(* next, Search returns that error value, or the error of the outermost    *)
(* interceptor outside it that replaces errors, and neither the            *)
(* interceptors inside it nor the transport run.                           *)
(***************************************************************************)
InterceptorErrorPropagates ==
    (FirstShort # 0 /\ interceptors[FirstShort] = "fail") =>
        /\ exchanges = <<>>
        /\ \A j \in Registered : j > FirstShort => Entries(j) = 0
        /\ Done =>
              result.err = IF ReplacersOutside(FirstShort) = {}
                           THEN Err("interceptor", FirstShort)
                           ELSE Err("replaced", Min(ReplacersOutside(FirstShort)))

InterceptorErrorPropagatesWitness ==
    /\ Done
    /\ interceptors = <<"pass", "fail">>
    /\ result.err = Err("interceptor", 2)
    /\ events = <<<<"before", 1>>, <<"before", 2>>, <<"after", 2>>, <<"after", 1>>>>


(***************************************************************************)
(* The params each function of the chain must see: the caller's value with *)
(* the changes of the interceptors outside it applied, outermost first.    *)
(***************************************************************************)
ChangeOf(kind, p) ==
    CASE kind = "mutate" -> [Start |-> p.Start, MaxResults |-> MutatedMaxResults]
      [] kind = "offset" -> [Start |-> StartLimit + 1, MaxResults |-> p.MaxResults]
      [] OTHER -> p

RECURSIVE ExpectedParams(_)
ExpectedParams(j) ==
    IF j <= 1 THEN callerParams ELSE ChangeOf(interceptors[j - 1], ExpectedParams(j - 1))

InnermostParams == ExpectedParams(Len(interceptors) + 1)
ParamsInRange(p) == p.MaxResults <= MaxResultsLimit /\ p.Start <= StartLimit

(***************************************************************************)
(* C11: the params an interceptor changes before calling next are the      *)
(* params every function further in receives, the params RawSearch         *)
(* validates, the params of every exchange and the Params of the decoded   *)
(* page; the value the caller passed to Search stays as it was.            *)
(***************************************************************************)
MutatedParamsFlowInward ==
    /\ \A j \in 1..Len(received) : received[j] = ExpectedParams(j)
    /\ \A i \in 1..NumExchanges : exchanges[i].params = InnermostParams
    /\ (CoreEntered /\ ~ParamsInRange(InnermostParams)) => NumExchanges = 0
    /\ (Done /\ CoreEntered /\ ~ParamsInRange(InnermostParams) /\ AllTransparent)
          => result.err.kind \in {"maxResults cannot exceed 2000", "start cannot exceed 30000"}
    /\ (Done /\ result.page.kind = "decoded") => result.page.Params = InnermostParams
    /\ (nav = "search" /\ Len(searches) > 0) => searches[1] = callerParams

MutatedParamsFlowInwardWitness ==
    /\ Done
    /\ nav = "search"
    /\ Len(interceptors) = 2
    /\ interceptors[1] = "mutate"
    /\ callerParams = SearchParams(0, MaxResultsLimit + 1)
    /\ received = <<callerParams, SearchParams(0, MutatedMaxResults),
                    SearchParams(0, MutatedMaxResults)>>
    /\ NumExchanges >= 1
    /\ result.page.kind = "decoded"
    /\ result.page.Params = SearchParams(0, MutatedMaxResults)


(***************************************************************************)
(* The query language of src/arxiv/query.go.  A Go string is the sequence  *)
(* of its bytes, each a one-character string; Ascii[k] is byte k + 31     *)
(* (byte 96, the grave accent, is written "grave").                        *)
(***************************************************************************)
Ascii ==
    <<
    " ", "!", "\"", "#", "$", "%", "&", "'", "(", ")", "*", "+", ",", "-", ".", "/",
    "0", "1", "2", "3", "4", "5", "6", "7", "8", "9", ":", ";", "<", "=", ">", "?",
    "@", "A", "B", "C", "D", "E", "F", "G", "H", "I", "J", "K", "L", "M", "N", "O",
    "P", "Q", "R", "S", "T", "U", "V", "W", "X", "Y", "Z", "[", "\\", "]", "^", "_",
    "grave", "a", "b", "c", "d", "e", "f", "g", "h", "i", "j", "k", "l", "m", "n", "o",
    "p", "q", "r", "s", "t", "u", "v", "w", "x", "y", "z", "{", "|", "}", "~"
    >>

Bytes == {Ascii[k] : k \in DOMAIN Ascii}
AsciiCode == [c \in Bytes |-> 31 + (CHOOSE k \in DOMAIN Ascii : Ascii[k] = c)]
Code(c) == AsciiCode[c]
Char(n) == IF n - 31 \in DOMAIN Ascii THEN Ascii[n - 31] ELSE "?"
IsDigit(c) == Code(c) \in Code("0")..Code("9")
ToUpperChar(c) == IF Code(c) \in Code("a")..Code("z") THEN Char(Code(c) - (Code("a") - Code("A"))) ELSE c
UpperCase == [c \in Bytes |-> ToUpperChar(c)]
ToUpper(s) == [k \in DOMAIN s |-> UpperCase[s[k]]]

RECURSIVE Join(_, _)
Join(parts, sep) ==
    IF Len(parts) = 0 THEN <<>>
    ELSE IF Len(parts) = 1 THEN parts[1]
    ELSE parts[1] \o sep \o Join(Tail(parts), sep)

Contains(s, c) == \E k \in DOMAIN s : s[k] = c
HasPrefix(s, p) == Len(s) >= Len(p) /\ SubSeq(s, 1, Len(p)) = p
HasSuffix(s, p) == Len(s) >= Len(p) /\ SubSeq(s, Len(s) - Len(p) + 1, Len(s)) = p

opAnd == <<"A", "N", "D">>
opOr == <<"O", "R">>
opAndNot == <<"A", "N", "D", "N", "O", "T">>

fieldTitle == <<"t", "i">>
fieldAbstract == <<"a", "b", "s">>
fieldAuthor == <<"a", "u">>
fieldCategory == <<"c", "a", "t">>
fieldComment == <<"c", "o">>
fieldJournal == <<"j", "r">>
fieldAll == <<"a", "l", "l">>
fieldSubmittedDate == <<"s", "u", "b", "m", "i", "t", "t", "e", "d", "D", "a", "t", "e">>

(***************************************************************************)
(* time.Time to the minute, and its layout "200601021504".                 *)
(***************************************************************************)
Time(y, mo, d, h, mi) == [year |-> y, month |-> mo, day |-> d, hour |-> h, minute |-> mi]
NoTime == Time(0, 0, 0, 0, 0)
DigitChar(n) == Char(Code("0") + n)
Pad2(n) == <<DigitChar((n \div 10) % 10), DigitChar(n % 10)>>
Pad4(n) == Pad2(n \div 100) \o Pad2(n % 100)
Format(t) == Pad4(t.year) \o Pad2(t.month) \o Pad2(t.day) \o Pad2(t.hour) \o Pad2(t.minute)

(***************************************************************************)
(* The four kinds of queryNode, as one record shape.                       *)
(***************************************************************************)
queryNode(t, f, v, o, ns, s, e) ==
    [type |-> t, field |-> f, value |-> v, op |-> o, nodes |-> ns, startDate |-> s, endDate |-> e]
fieldQuery(f, v) == queryNode("fieldQuery", f, v, <<>>, <<>>, NoTime, NoTime)
groupQuery(ns) == queryNode("groupQuery", <<>>, <<>>, <<>>, ns, NoTime, NoTime)
operatorNode(o) == queryNode("operatorNode", <<>>, <<>>, o, <<>>, NoTime, NoTime)
dateRangeQuery(f, s, e) == queryNode("dateRangeQuery", f, <<>>, <<>>, <<>>, s, e)

RECURSIVE encode(_)
encode_quoted(node) ==
    CASE node.type = "fieldQuery" -> node.field \o <<":", "\"">> \o node.value \o <<"\"">>
      [] node.type = "groupQuery" ->
            <<"(">> \o Join([k \in DOMAIN node.nodes |-> encode(node.nodes[k])], <<" ">>) \o <<")">>
      [] node.type = "operatorNode" -> node.op
      [] OTHER ->
            node.field \o <<":", "[">> \o Format(node.startDate) \o <<" ", "T", "O", " ">>
                \o Format(node.endDate) \o <<"]">>

encode(node) ==
    CASE node.type = "fieldQuery" -> node.field \o <<":">> \o node.value
      [] node.type = "groupQuery" ->
            <<"(">> \o Join([k \in DOMAIN node.nodes |-> encode(node.nodes[k])], <<" ">>) \o <<")">>
      [] node.type = "operatorNode" -> node.op
      [] OTHER ->
            node.field \o <<":", "[">> \o Format(node.startDate) \o <<" ", "T", "O", " ">>
                \o Format(node.endDate) \o <<"]">>

String(q) == Join([k \in DOMAIN q |-> encode(q[k])], <<" ">>)

(***************************************************************************)
(* The builder.  q is SearchQuery.nodes.                                   *)
(***************************************************************************)
NewSearchQuery == <<>>
Title(q, value) == Append(q, fieldQuery(fieldTitle, value))
Abstract(q, value) == Append(q, fieldQuery(fieldAbstract, value))
Author(q, value) == Append(q, fieldQuery(fieldAuthor, value))
Category(q, value) == Append(q, fieldQuery(fieldCategory, value))
Comment(q, value) == Append(q, fieldQuery(fieldComment, value))
Journal(q, value) == Append(q, fieldQuery(fieldJournal, value))
All(q, value) == Append(q, fieldQuery(fieldAll, value))

And_unguarded(q) == Append(q, operatorNode(opAnd))

And(q) == IF Len(q) > 0 THEN Append(q, operatorNode(opAnd)) ELSE q
Or(q) == IF Len(q) > 0 THEN Append(q, operatorNode(opOr)) ELSE q
AndNot(q) == IF Len(q) > 0 THEN Append(q, operatorNode(opAndNot)) ELSE q

SubmittedBetween(q, start, end) ==
    Append(IF Len(q) > 0 THEN Append(q, operatorNode(opAnd)) ELSE q,
           dateRangeQuery(fieldSubmittedDate, start, end))

(***************************************************************************)
(* A builder call, and a chain of them.  Group's function argument is the  *)
(* chain of calls it makes on the sub-builder.                             *)
(***************************************************************************)
Call(m, v, b, s, e) == [method |-> m, value |-> v, body |-> b, start |-> s, end |-> e]
FieldCall(m, v) == Call(m, v, <<>>, NoTime, NoTime)
OpCall(m) == Call(m, <<>>, <<>>, NoTime, NoTime)
GroupCall(b) == Call("Group", <<>>, b, NoTime, NoTime)
DateCall(s, e) == Call("SubmittedBetween", <<>>, <<>>, s, e)

RECURSIVE Apply(_, _)
RECURSIVE ApplyAll(_, _)
Group_always(q, fn) == Append(q, groupQuery(ApplyAll(fn, NewSearchQuery)))

Group(q, fn) ==
    LET group == ApplyAll(fn, NewSearchQuery)
    IN  IF Len(group) > 0 THEN Append(q, groupQuery(group)) ELSE q

Apply(call, q) ==
    CASE call.method = "Title" -> Title(q, call.value)
      [] call.method = "Abstract" -> Abstract(q, call.value)
      [] call.method = "Author" -> Author(q, call.value)
      [] call.method = "Category" -> Category(q, call.value)
      [] call.method = "Comment" -> Comment(q, call.value)
      [] call.method = "Journal" -> Journal(q, call.value)
      [] call.method = "All" -> All(q, call.value)
      [] call.method = "And" -> And(q)
      [] call.method = "Or" -> Or(q)
      [] call.method = "AndNot" -> AndNot(q)
      [] call.method = "Group" -> Group(q, call.body)
      [] OTHER -> SubmittedBetween(q, call.start, call.end)

ApplyAll(cs, q) == IF Len(cs) = 0 THEN q ELSE ApplyAll(Tail(cs), Apply(Head(cs), q))


(***************************************************************************)
(* The tokenizer.                                                          *)
(***************************************************************************)
isOperator(word) == ToUpper(word) \in {opAnd, opOr, opAndNot}

SkipSpaces(s, i) ==
    CHOOSE k \in i..(Len(s) + 1) :
        /\ \A j \in i..(k - 1) : s[j] = " "
        /\ k <= Len(s) => s[k] # " "

WordEnd(s, i) ==
    CHOOSE k \in i..(Len(s) + 1) :
        /\ \A j \in i..(k - 1) : s[j] \notin {" ", "(", ")"}
        /\ k <= Len(s) => s[k] \in {" ", "(", ")"}

getNextWord_whitespace(s, i) ==
    LET start == SkipSpaces(s, i)
        end == CHOOSE k \in start..(Len(s) + 1) :
                   /\ \A j \in start..(k - 1) : s[j] # " "
                   /\ k <= Len(s) => s[k] = " "
    IN  IF start <= Len(s) THEN SubSeq(s, start, end - 1) ELSE <<>>

getNextWord(s, i) ==
    LET start == SkipSpaces(s, i)
    IN  IF start <= Len(s) THEN SubSeq(s, start, WordEnd(s, start) - 1) ELSE <<>>

TokenizerStart ==
    [i |-> 1, tokens |-> <<>>, current |-> <<>>, inParens |-> 0, inBrackets |-> FALSE,
     inFieldValue |-> FALSE]

Flush(st) ==
    IF Len(st.current) > 0
    THEN [st EXCEPT !.tokens = Append(@, st.current), !.current = <<>>]
    ELSE st

WriteByte(st, ch) == [st EXCEPT !.current = Append(@, ch)]

tokenizeByte(query, st) ==
    LET i == st.i
        ch == query[i]
    IN  CASE ch = "(" -> [Flush(st) EXCEPT !.inParens = @ + 1]
          [] ch = ")" -> [Flush(st) EXCEPT !.inParens = @ - 1]
          [] ch = "[" -> [WriteByte(st, ch) EXCEPT !.inBrackets = TRUE]
          [] ch = "]" -> [WriteByte(st, ch) EXCEPT !.inBrackets = FALSE]
          [] ch = ":" -> [WriteByte(st, ch) EXCEPT !.inFieldValue = st.inFieldValue \/ ~st.inBrackets]
          [] ch = " " ->
                IF st.inParens > 0 \/ st.inBrackets THEN WriteByte(st, ch)
                ELSE IF st.inFieldValue
                THEN LET nextWord == getNextWord(query, i + 1)
                     IN  IF isOperator(nextWord) \/ Contains(nextWord, ":")
                         THEN [Flush(st) EXCEPT !.inFieldValue = FALSE]
                         ELSE WriteByte(st, ch)
                ELSE Flush(st)
          [] OTHER -> WriteByte(st, ch)

tokenizeStep(query, st) == [tokenizeByte(query, st) EXCEPT !.i = st.i + 1]

(***************************************************************************)
(* The loop "for i < len(query)", from the state st up to i = hi.  The     *)
(* range is run as two halves one after the other, which keeps the         *)
(* evaluation shallow.                                                     *)
(***************************************************************************)
RECURSIVE tokenizeLoop(_, _, _)
tokenizeLoop(query, hi, st) ==
    IF st.i > hi THEN st
    ELSE IF st.i = hi THEN tokenizeStep(query, st)
    ELSE tokenizeLoop(query, hi, tokenizeLoop(query, (st.i + hi) \div 2, st))

tokenizeQuery(query) == Flush(tokenizeLoop(query, Len(query), TokenizerStart)).tokens

(***************************************************************************)
(* url.QueryUnescape, strings.Trim, strings.Split and parseArxivDate.      *)
(***************************************************************************)
Failed == [ok |-> FALSE, value |-> <<>>]
Ok(v) == [ok |-> TRUE, value |-> v]

ishex(c) ==
    \/ IsDigit(c)
    \/ Code(c) \in Code("a")..Code("f")
    \/ Code(c) \in Code("A")..Code("F")

unhex(c) ==
    IF IsDigit(c) THEN Code(c) - Code("0")
    ELSE IF Code(c) \in Code("a")..Code("f") THEN Code(c) - Code("a") + 10
    ELSE Code(c) - Code("A") + 10

(***************************************************************************)
(* QueryUnescape reads s left to right, three bytes at a %XX escape.       *)
(***************************************************************************)
UnescapeStart == [i |-> 1, ok |-> TRUE, value |-> <<>>]

unescapeStep(s, st) ==
    LET i == st.i
    IN  IF s[i] = "%"
        THEN IF i + 2 > Len(s) \/ ~ishex(s[i + 1]) \/ ~ishex(s[i + 2])
             THEN [st EXCEPT !.ok = FALSE]
             ELSE [st EXCEPT !.value = Append(@, Char(unhex(s[i + 1]) * 16 + unhex(s[i + 2]))),
                             !.i = i + 3]
        ELSE [st EXCEPT !.value = Append(@, IF s[i] = "+" THEN " " ELSE s[i]), !.i = i + 1]

RECURSIVE unescapeLoop(_, _, _)
unescapeLoop(s, hi, st) ==
    IF st.i > hi \/ ~st.ok THEN st
    ELSE IF st.i = hi THEN unescapeStep(s, st)
    ELSE unescapeLoop(s, hi, unescapeLoop(s, (st.i + hi) \div 2, st))

QueryUnescape(s) ==
    LET end == unescapeLoop(s, Len(s), UnescapeStart)
    IN  IF end.ok THEN Ok(end.value) ELSE Failed

Trim(s, cutset) ==
    LET kept == {k \in DOMAIN s : s[k] \notin cutset}
    IN  IF kept = {} THEN <<>>
        ELSE SubSeq(s, CHOOSE k \in kept : \A j \in kept : k <= j,
                       CHOOSE k \in kept : \A j \in kept : k >= j)

Index(s, sep) ==
    LET hits == {k \in 1..(Len(s) - Len(sep) + 1) : SubSeq(s, k, k + Len(sep) - 1) = sep}
    IN  IF hits = {} THEN 0 ELSE CHOOSE k \in hits : \A j \in hits : k <= j

RECURSIVE Split(_, _)
Split(s, sep) ==
    LET k == Index(s, sep)
    IN  IF k = 0 THEN <<s>>
        ELSE <<SubSeq(s, 1, k - 1)>> \o Split(SubSeq(s, k + Len(sep), Len(s)), sep)

Atoi(s) ==
    LET RECURSIVE val(_)
        val(n) == IF n = 0 THEN 0 ELSE val(n - 1) * 10 + (Code(s[n]) - Code("0"))
    IN  val(Len(s))

isLeap(year) == year % 4 = 0 /\ (year % 100 # 0 \/ year % 400 = 0)

daysIn(month, year) ==
    IF month = 2 THEN (IF isLeap(year) THEN 29 ELSE 28)
    ELSE IF month \in {4, 6, 9, 11} THEN 30
    ELSE 31

parseArxivDate(dateStr) ==
    IF Len(dateStr) # 12 \/ \E k \in DOMAIN dateStr : ~IsDigit(dateStr[k])
    THEN [ok |-> FALSE, value |-> NoTime]
    ELSE LET year == Atoi(SubSeq(dateStr, 1, 4))
             month == Atoi(SubSeq(dateStr, 5, 6))
             day == Atoi(SubSeq(dateStr, 7, 8))
             hour == Atoi(SubSeq(dateStr, 9, 10))
             minute == Atoi(SubSeq(dateStr, 11, 12))
         IN  IF /\ month \in 1..12
                /\ day \in 1..daysIn(month, year)
                /\ hour \in 0..23
                /\ minute \in 0..59
             THEN [ok |-> TRUE, value |-> Time(year, month, day, hour, minute)]
             ELSE [ok |-> FALSE, value |-> NoTime]

(***************************************************************************)
(* ParseSearchQuery.  The result is (q.nodes, err == nil).                 *)
(***************************************************************************)
Parsed(q) == [ok |-> TRUE, nodes |-> q]
ParseError == [ok |-> FALSE, nodes |-> <<>>]

parseDateRange(tokens, i, q, value) ==
    IF HasPrefix(value, <<"[">>) /\ HasSuffix(value, <<"]">>)
    THEN LET dateStr == Trim(value, {"[", "]"})
             parts == Split(dateStr, <<" ", "T", "O", " ">>)
         IN  IF Len(parts) = 2
             THEN LET startDate == parseArxivDate(parts[1])
                      endDate == parseArxivDate(parts[2])
                  IN  IF startDate.ok /\ endDate.ok
                      THEN Parsed(Append(IF i > 1 /\ ~isOperator(tokens[i - 1]) THEN And(q) ELSE q,
                                         dateRangeQuery(fieldSubmittedDate, startDate.value,
                                                        endDate.value)))
                      ELSE ParseError
             ELSE ParseError
    ELSE Parsed(q)

parseField(tokens, i, q, token) ==
    LET colon == Index(token, <<":">>)
        field == SubSeq(token, 1, colon - 1)
        unescaped == QueryUnescape(SubSeq(token, colon + 1, Len(token)))
        value == unescaped.value
    IN  IF ~unescaped.ok THEN ParseError
        ELSE CASE field = fieldTitle -> Parsed(Title(q, value))
               [] field = fieldAbstract -> Parsed(Abstract(q, value))
               [] field = fieldAuthor -> Parsed(Author(q, value))
               [] field = fieldCategory -> Parsed(Category(q, value))
               [] field = fieldComment -> Parsed(Comment(q, value))
               [] field = fieldJournal -> Parsed(Journal(q, value))
               [] field = fieldAll -> Parsed(All(q, value))
               [] field = fieldSubmittedDate -> parseDateRange(tokens, i, q, value)
               [] OTHER -> ParseError

parseToken(tokens, i, q) ==
    LET token == tokens[i]
    IN  CASE ToUpper(token) = opAnd -> Parsed(And(q))
          [] ToUpper(token) = opOr -> Parsed(Or(q))
          [] ToUpper(token) = opAndNot -> Parsed(AndNot(q))
          [] OTHER -> IF Contains(token, ":") THEN parseField(tokens, i, q, token) ELSE Parsed(q)

RECURSIVE parseLoop(_, _, _)
parseLoop(tokens, i, q) ==
    IF i > Len(tokens) THEN Parsed(q)
    ELSE LET step == parseToken(tokens, i, q)
         IN  IF step.ok THEN parseLoop(tokens, i + 1, step.nodes) ELSE ParseError

ParseSearchQuery(query) ==
    IF query = <<>> THEN Parsed(NewSearchQuery)
    ELSE parseLoop(tokenizeQuery(query), 1, NewSearchQuery)


(***************************************************************************)
(* The query scenario: a chain of builder calls on NewSearchQuery(), then  *)
(* String(), then ParseSearchQuery of that string; or ParseSearchQuery of  *)
(* a string the caller wrote by hand.                                      *)
(***************************************************************************)
MaxCalls == 3

Jan1 == Time(2023, 1, 1, 0, 0)
Dec31 == Time(2023, 12, 31, 23, 59)
Feb29 == Time(2024, 2, 29, 12, 30)

FieldCalls ==
    {FieldCall("Title", <<"x">>), FieldCall("Title", <<"a", " ", "b">>), FieldCall("Title", <<"q", " ", "o", "r">>),
     FieldCall("Abstract", <<"x">>), FieldCall("Author", <<"D", "o", "e", ",", " ", "J">>), FieldCall("Category", <<"c", "s", ".", "L", "G">>),
     FieldCall("Comment", <<"x">>), FieldCall("Journal", <<"x">>), FieldCall("All", <<"x">>)}

OpCalls == {OpCall("And"), OpCall("Or"), OpCall("AndNot")}

DateCalls == {DateCall(Jan1, Dec31), DateCall(Feb29, Feb29)}

GroupBodies ==
    {<<>>,
     <<OpCall("And"), FieldCall("Title", <<"x">>)>>,
     <<FieldCall("Title", <<"x">>), OpCall("Or"), FieldCall("Category", <<"c", "s", ".", "L", "G">>)>>,
     <<FieldCall("Author", <<"D", "o", "e", ",", " ", "J">>), DateCall(Jan1, Dec31)>>,
     <<OpCall("And"), OpCall("Or")>>,
     <<GroupCall(<<>>)>>}

BuilderCalls == FieldCalls \cup OpCalls \cup DateCalls \cup {GroupCall(b) : b \in GroupBodies}

RawQueries ==
    {<<"A", "N", "D", " ", "t", "i", ":", "x">>, <<"o", "r">>, <<"(", "A", "N", "D", " ", "t", "i", ":", "x", ")">>, <<"t", "i", ":", "x", " ", "a", "n", "d", " ", "c", "a", "t", ":", "c", "s", ".", "L", "G">>,
     <<"t", "i", ":", "x", " ", "s", "u", "b", "m", "i", "t", "t", "e", "d", "D", "a", "t", "e", ":", "[", "2", "0", "2", "3", "0", "1", "0", "1", "0", "0", "0", "0", " ", "T", "O", " ", "2", "0", "2", "3", "1", "2", "3", "1", "2", "3", "5", "9", "]">>,
     <<"s", "u", "b", "m", "i", "t", "t", "e", "d", "D", "a", "t", "e", ":", "[", "2", "0", "2", "3", "0", "2", "3", "0", "0", "0", "0", "0", " ", "T", "O", " ", "2", "0", "2", "3", "1", "2", "3", "1", "2", "3", "5", "9", "]">>, <<"f", "o", "o", ":", "x">>, <<"x">>,
     <<"s", "u", "b", "m", "i", "t", "t", "e", "d", "D", "a", "t", "e", ":", "[", "2", "0", "2", "3", "0", "1", "0", "1", "0", "0", "0", "0", " ", "T", "O", " ", "2", "0", "2", "3", "1", "2", "3", "1", "2", "3", "5", "9">>,
     <<"s", "u", "b", "m", "i", "t", "t", "e", "d", "D", "a", "t", "e", ":", "[", "2", "0", "2", "3", " ", "T", "O", " ", "2", "0", "2", "3", "1", "2", "3", "1", "2", "3", "5", "9", "]">>,
     <<"t", "i", ":", "x", " ", "[", "y">>,
     <<"t", "i", ":", "q", "u", "a", "n", "t", "u", "m", " ", "c", "o", "m", "p", "u", "t", "i", "n", "g", " ", "A", "N", "D", " ", "c", "a", "t", ":", "q", "u", "a", "n", "t", "-", "p", "h">>,
     <<"t", "i", ":", "x", " ", "(", "c", "a", "t", ":", "y", ")">>,
     <<"t", "i", ":", "a", " ", "b">>,
     <<"t", "i", ":", "a", " ", "b", " ", "A", "N", "D", " ", "c", "a", "t", ":", "c", " ", "(", "a", "u", ":", "d", ")">>,
     <<"t", "i", ":", "x", " ", "y", " ", "O", "R", " ", "a", "u", ":", "z">>}

InitQuery ==
    /\ interceptors = <<>>
    /\ retryConfig = NoRetryConfig
    /\ hasLimiter = FALSE
    /\ callerParams = ZeroParams
    /\ params = ZeroParams
    /\ nav = "none"
    /\ navPage = NoPage
    /\ InitCall
    /\ nodes = NewSearchQuery
    /\ parsed = NoParse
    /\ calls = <<>>
    /\ \/ qpc = "build" /\ wire = <<>>
       \/ qpc = "raw" /\ wire \in RawQueries
    /\ InitNoIter
    /\ InitNoFn

callVars ==
    <<config, ctx, pc, chain, level, params, loopVars, openBodies, exchanges, events, result,
      cancelledAt, callerParams, received, searches, waits>>

Build ==
    /\ qpc = "build"
    /\ Len(calls) < MaxCalls
    /\ \E call \in BuilderCalls :
          /\ nodes' = Apply(call, nodes)
          /\ calls' = Append(calls, call)
    /\ UNCHANGED <<callVars, navVars, iterVars, fnVars, wire, parsed, qpc>>

Encode ==
    /\ qpc = "build"
    /\ wire' = String(nodes)
    /\ qpc' = "encoded"
    /\ UNCHANGED <<callVars, navVars, iterVars, fnVars, nodes, parsed, calls>>

Parse ==
    /\ qpc \in {"encoded", "raw"}
    /\ parsed' = ParseSearchQuery(wire)
    /\ qpc' = IF qpc = "encoded" THEN "parsed" ELSE "rawparsed"
    /\ UNCHANGED <<callVars, navVars, iterVars, fnVars, nodes, wire, calls>>

NextQuery == Build \/ Encode \/ Parse

SpecQuery == InitQuery /\ [][NextQuery]_vars

(***************************************************************************)
(* Vocabulary of the query claims.                                         *)
(***************************************************************************)
IsOperatorNode(node) == node.type = "operatorNode"
LastCall == calls[Len(calls)]
BuilderBefore == ApplyAll(SubSeq(calls, 1, Len(calls) - 1), <<>>)
AndNode == operatorNode(<<"A", "N", "D">>)

(***************************************************************************)
(* C12: every string String() returns for a built query is parsed without  *)
(* error by ParseSearchQuery, and the String() of the parsed query is the  *)
(* same string.                                                            *)
(***************************************************************************)
EncodeParseRoundTrip ==
    qpc = "parsed" => (parsed.ok /\ String(parsed.nodes) = wire)

(***************************************************************************)
(* C13: the first node of a built query, of each of its groups and of a    *)
(* parsed query is never an operator; a chain of And/Or/AndNot calls on    *)
(* the empty builder leaves it empty, and its String() is "".              *)
(***************************************************************************)
NoLeadingOperator(q) ==
    /\ Len(q) > 0 => ~IsOperatorNode(q[1])
    /\ \A k \in DOMAIN q :
          (q[k].type = "groupQuery" /\ Len(q[k].nodes) > 0) => ~IsOperatorNode(q[k].nodes[1])

OnlyOperatorCalls == \A k \in DOMAIN calls : calls[k].method \in {"And", "Or", "AndNot"}

FirstNodeNeverOperator ==
    /\ NoLeadingOperator(nodes)
    /\ (qpc \in {"parsed", "rawparsed"} /\ parsed.ok) => NoLeadingOperator(parsed.nodes)
    /\ OnlyOperatorCalls => nodes = <<>>
    /\ (OnlyOperatorCalls /\ qpc = "encoded") => wire = <<>>

FirstNodeNeverOperatorWitness ==
    /\ qpc = "encoded"
    /\ calls = <<OpCall("And")>>
    /\ nodes = <<>>
    /\ wire = <<>>

(***************************************************************************)
(* C14: String() is the encodings of the top-level nodes joined by single  *)
(* spaces: field:value with the value as given, the operator keyword in    *)
(* upper case, a group as its children's encodings joined by spaces        *)
(* inside parentheses.                                                     *)
(***************************************************************************)
RECURSIVE Spaced(_)
Spaced(parts) ==
    IF Len(parts) = 0 THEN <<>>
    ELSE IF Len(parts) = 1 THEN Head(parts)
    ELSE Head(parts) \o <<" ">> \o Spaced(Tail(parts))

RECURSIVE Wire(_)
Wire(node) ==
    IF node.type = "fieldQuery" THEN node.field \o <<":">> \o node.value
    ELSE IF node.type = "operatorNode" THEN node.op
    ELSE IF node.type = "groupQuery"
    THEN <<"(">> \o Spaced([k \in DOMAIN node.nodes |-> Wire(node.nodes[k])]) \o <<")">>
    ELSE encode(node)

ExampleCalls ==
    <<FieldCall("Title", <<"g", "r", "a", "p", "h", " ", "n", "e", "u", "r", "a", "l", " ", "n", "e", "t", "w", "o", "r", "k", "s">>), OpCall("And"),
      FieldCall("Category", <<"c", "s", ".", "L", "G">>), OpCall("AndNot"), FieldCall("Author", <<"D", "o", "e", ",", " ", "J", "o", "h", "n">>)>>

ExampleWire ==
    <<"t", "i", ":", "g", "r", "a", "p", "h", " ", "n", "e", "u", "r", "a", "l", " ", "n", "e", "t", "w", "o", "r", "k", "s", " ", "A", "N", "D", " ", "c", "a", "t", ":", "c", "s", ".", "L", "G", " ", "A", "N", "D", "N", "O", "T", " ", "a", "u", ":", "D", "o", "e", ",", " ", "J", "o", "h", "n">>

StringJoinsEncodings ==
    /\ qpc \in {"encoded", "parsed"} => wire = Spaced([k \in DOMAIN nodes |-> Wire(nodes[k])])
    /\ \A k \in DOMAIN nodes :
          IsOperatorNode(nodes[k]) => nodes[k].op \in {<<"A", "N", "D">>, <<"O", "R">>, <<"A", "N", "D", "N", "O", "T">>}
    /\ String(ApplyAll(ExampleCalls, NewSearchQuery)) = ExampleWire

StringJoinsEncodingsWitness ==
    /\ qpc = "encoded"
    /\ calls = <<FieldCall("Title", <<"a", " ", "b">>), OpCall("AndNot"),
                 GroupCall(<<FieldCall("Title", <<"x">>), OpCall("Or"), FieldCall("Category", <<"c", "s", ".", "L", "G">>)>>)>>
    /\ wire = <<"t", "i", ":", "a", " ", "b", " ", "A", "N", "D", "N", "O", "T", " ", "(", "t", "i", ":", "x", " ", "O", "R", " ", "c", "a", "t", ":", "c", "s", ".", "L", "G", ")">>

(***************************************************************************)
(* C15: SubmittedBetween appends its date range after one implicit AND     *)
(* when the builder is non-empty and its last node is not an operator,     *)
(* after no added AND when the last node is an operator, and alone when    *)
(* the builder is empty.                                                   *)
(***************************************************************************)
SubmittedBetweenSingleAnd ==
    (Len(calls) > 0 /\ LastCall.method = "SubmittedBetween") =>
        LET before == BuilderBefore
            range == dateRangeQuery(fieldSubmittedDate, LastCall.start, LastCall.end)
        IN  nodes = IF Len(before) = 0 THEN <<range>>
                    ELSE IF IsOperatorNode(before[Len(before)]) THEN Append(before, range)
                    ELSE before \o <<AndNode, range>>


(***************************************************************************)
(* Pagination: SearchNext and SearchPrevious on a page the caller holds.   *)
(***************************************************************************)
SearchHasMoreResults_inclusive(response) ==
    response.TotalResults > 0 /\ response.StartIndex + response.ItemsPerPage <= response.TotalResults

SearchHasMoreResults(response) ==
    response.TotalResults > 0 /\ response.StartIndex + response.ItemsPerPage < response.TotalResults

SearchHasPreviousResults_anyTotal(response) == response.StartIndex > 0

SearchHasPreviousResults(response) == response.TotalResults > 0 /\ response.StartIndex > 0

NextParams_fromParams(response) ==
    [response.Params EXCEPT !.Start = response.Params.Start + response.ItemsPerPage]

NextParams(response) ==
    [response.Params EXCEPT !.Start = response.StartIndex + response.ItemsPerPage]

PreviousParams_unclamped(response) ==
    [response.Params EXCEPT !.Start = response.StartIndex - response.ItemsPerPage]

PreviousParams(response) ==
    LET start == response.StartIndex - response.ItemsPerPage
    IN  [response.Params EXCEPT !.Start = IF start < 0 THEN 0 ELSE start]

NoMoreResults_echo(response) == Result(response, Err("no more results", 0))

NoMoreResults(response) == Result(EmptyResults, Err("no more results", 0))

NavParams == {SearchParams(0, 20), SearchParams(80, 20)}
NavTotals == {-1, 0, 100, StartLimit + 100}
NavStarts == {-20, 0, 10, 80, 100, StartLimit}
NavSizes == {0, 20, 30}
NavPages ==
    {Page("decoded", 0, p, t, st, n) : p \in NavParams, t \in NavTotals, st \in NavStarts, n \in NavSizes}
NavInterceptors == {<<>>, <<"pass">>, <<"cache">>, <<"offset">>}
NavRetryConfigs == {NoRetryConfig, RetryConfig(2, 10, 40, Rat(2, 1))}

InitNav ==
    /\ interceptors \in NavInterceptors
    /\ retryConfig \in NavRetryConfigs
    /\ hasLimiter \in BOOLEAN
    /\ \/ /\ nav \in {"next", "previous"}
          /\ navPage \in NavPages
          /\ callerParams = ZeroParams
       \/ /\ nav = "search"
          /\ navPage = NoPage
          /\ callerParams \in ParamChoices
    /\ params = ZeroParams
    /\ InitCall
    /\ InitNoQuery
    /\ InitNoIter
    /\ InitNoFn

NavReturn(res) ==
    /\ result' = res
    /\ pc' = "done"
    /\ UNCHANGED <<chain, level, params, received, searches, callerParams>>

NavSearch(p) ==
    /\ callerParams' = p
    /\ SearchCall(p)
    /\ UNCHANGED result

SearchNext ==
    /\ pc = "idle"
    /\ nav = "next"
    /\ IF ~SearchHasMoreResults(navPage)
       THEN NavReturn(NoMoreResults(navPage))
       ELSE NavSearch(NextParams(navPage))
    /\ UNCHANGED <<config, ctx, loopVars, openBodies, exchanges, events, cancelledAt, waits,
                   navVars, queryVars, iterVars, fnVars>>

SearchPrevious ==
    /\ pc = "idle"
    /\ nav = "previous"
    /\ IF ~SearchHasPreviousResults(navPage)
       THEN NavReturn(NoMoreResults(navPage))
       ELSE NavSearch(PreviousParams(navPage))
    /\ UNCHANGED <<config, ctx, loopVars, openBodies, exchanges, events, cancelledAt, waits,
                   navVars, queryVars, iterVars, fnVars>>

NextNav ==
    \/ Search
    \/ SearchNext
    \/ SearchPrevious
    \/ Cancel
    \/ InterceptorCall
    \/ InterceptorReturn
    \/ SearchReturn
    \/ DoSearch
    \/ RateLimit
    \/ Request
    \/ BackoffElapsed
    \/ BackoffCancelled

SpecNav == InitNav /\ [][NextNav]_vars

(***************************************************************************)
(* Vocabulary of the pagination claims.                                    *)
(***************************************************************************)
Called == pc # "idle"
MoreRemain == navPage.TotalResults >= 1 /\ navPage.TotalResults - navPage.StartIndex > navPage.ItemsPerPage
EarlierExist == navPage.TotalResults >= 1 /\ navPage.StartIndex >= 1
NoMoreErr == result.err.kind = "no more results"
Max(a, b) == IF a >= b THEN a ELSE b
NothingRan == searches = <<>> /\ events = <<>> /\ received = <<>> /\ waits = 0 /\ exchanges = <<>>

(***************************************************************************)
(* C16: SearchHasMoreResults(page) is true exactly when TotalResults > 0   *)
(* and StartIndex + ItemsPerPage < TotalResults; SearchNext refuses the    *)
(* page exactly when it is false.                                          *)
(***************************************************************************)
HasMoreIffBeyondPage ==
    /\ SearchHasMoreResults(navPage) <=> MoreRemain
    /\ (nav = "next" /\ Done) => (NoMoreErr <=> ~MoreRemain)

HasMoreIffBeyondPageWitness ==
    /\ nav = "next"
    /\ Done
    /\ navPage.TotalResults = 100
    /\ navPage.StartIndex = 80
    /\ navPage.ItemsPerPage = 20
    /\ NoMoreErr

(***************************************************************************)
(* C17: SearchHasPreviousResults(page) is true exactly when                *)
(* TotalResults > 0 and StartIndex > 0; SearchPrevious refuses the page    *)
(* exactly when it is false.                                               *)
(***************************************************************************)
HasPreviousIffPastStart ==
    /\ SearchHasPreviousResults(navPage) <=> EarlierExist
    /\ (nav = "previous" /\ Done) => (NoMoreErr <=> ~EarlierExist)

HasPreviousIffPastStartWitness ==
    /\ nav = "previous"
    /\ Done
    /\ navPage.TotalResults = 0
    /\ navPage.StartIndex = 10
    /\ NoMoreErr

(***************************************************************************)
(* C18: on a page with more results SearchNext makes exactly one Search    *)
(* call, with the page's Params except Start = StartIndex + ItemsPerPage.  *)
(***************************************************************************)
SearchNextAdvancesStart ==
    (nav = "next" /\ Called /\ MoreRemain) =>
        searches = <<[Start |-> navPage.StartIndex + navPage.ItemsPerPage,
                      MaxResults |-> navPage.Params.MaxResults]>>

SearchNextAdvancesStartWitness ==
    /\ nav = "next"
    /\ Done
    /\ navPage = Page("decoded", 0, SearchParams(0, 20), 100, 10, 30)
    /\ searches = <<SearchParams(40, 20)>>
    /\ NumExchanges >= 1
    /\ exchanges[1].params = SearchParams(40, 20)

(***************************************************************************)
(* C19: on a page with previous results SearchPrevious makes exactly one   *)
(* Search call, with the page's Params except                              *)
(* Start = max(0, StartIndex - ItemsPerPage), which is never negative.     *)
(***************************************************************************)
SearchPreviousClampsStart ==
    (nav = "previous" /\ Called /\ EarlierExist) =>
        /\ searches = <<[Start |-> Max(0, navPage.StartIndex - navPage.ItemsPerPage),
                         MaxResults |-> navPage.Params.MaxResults]>>
        /\ searches[1].Start >= 0

SearchPreviousClampsStartWitness ==
    /\ nav = "previous"
    /\ Done
    /\ navPage = Page("decoded", 0, SearchParams(80, 20), 100, 10, 30)
    /\ searches = <<SearchParams(0, 20)>>
    /\ NumExchanges >= 1
    /\ exchanges[1].params = SearchParams(0, 20)

(***************************************************************************)
(* C20: SearchNext on a page without more results, and SearchPrevious on   *)
(* a page without previous results, return the "no more results" error and *)
(* an empty page, and run no interceptor, no rate-limiter wait and no      *)
(* exchange.                                                               *)
(***************************************************************************)
NoMoreResultsTouchesNothing ==
    /\ (nav = "next" /\ Called /\ ~MoreRemain) =>
          (Done /\ NoMoreErr /\ result.page = EmptyResults /\ NothingRan)
    /\ (nav = "previous" /\ Called /\ ~EarlierExist) =>
          (Done /\ NoMoreErr /\ result.page = EmptyResults /\ NothingRan)

NoMoreResultsTouchesNothingWitness ==
    /\ nav = "previous"
    /\ Done
    /\ Len(interceptors) = 1
    /\ hasLimiter
    /\ navPage.TotalResults = 100
    /\ navPage.StartIndex = 0
    /\ NoMoreErr
    /\ result.page = EmptyResults
    /\ NothingRan

(***************************************************************************)
(* The params RawSearch was called with, once doSearch has been entered.   *)
(***************************************************************************)
CoreParams == received[Len(received)]
AboveLimits(p) == p.MaxResults > 2000 \/ p.Start > 30000
ValidationErrs == {Err("maxResults cannot exceed 2000", 0), Err("start cannot exceed 30000", 0)}

\* C26: no exchange and no rate-limiter wait is ever started for params with
\* MaxResults > 2000 or Start > 30000, whether they come from the caller,
\* from an interceptor or from a pagination cursor advance; the call
\* returns the validation error and makes no attempt.
NoTransportAboveLimits ==
    /\ \A i \in 1..NumExchanges : ~AboveLimits(exchanges[i].params)
    /\ CoreEntered /\ AboveLimits(CoreParams) =>
          /\ exchanges = <<>>
          /\ waits = 0
          /\ attempt = 0
          /\ pc \notin {"ratelimit", "request", "backoff"}
          /\ result.err \in ValidationErrs
          /\ result.page = EmptyResults
    /\ waits > 0 => CoreEntered /\ ~AboveLimits(CoreParams)

NoTransportAboveLimitsWitness ==
    /\ Done
    /\ nav = "next"
    /\ hasLimiter
    /\ retryConfig.set
    /\ navPage.StartIndex <= 30000
    /\ CoreEntered
    /\ CoreParams.Start > 30000
    /\ result.err = Err("start cannot exceed 30000", 0)
    /\ exchanges = <<>>

(***************************************************************************)
(* SearchIter: the sequence that fetches a page with Search, hands its     *)
(* entries to the consumer's yield one at a time, and moves its own params *)
(* to the next page.  One behaviour of SpecIter is one range loop over one *)
(* sequence of a client without retry policy; every Search of it runs      *)
(* through the pipeline above.                                             *)
(***************************************************************************)
MaxFetches == 3

IterAdvance_fromParams(p, response) == [p EXCEPT !.Start = p.Start + response.ItemsPerPage]

IterAdvance(p, response) ==
    [p EXCEPT !.Start = response.StartIndex + response.ItemsPerPage]

OnSearchError_retry == "fetch"

OnSearchError == "done"

YieldResult_ignored(ok, next) == next

YieldResult(ok, next) == IF ok THEN next ELSE "done"

(***************************************************************************)
(* Where the loop stands with k entries of response handed over: at the    *)
(* next yield, or past the range loop at the test for more results.        *)
(***************************************************************************)
Continue(response, k, p) ==
    IF k < Len(response.Entries) THEN [ipc |-> "yield", params |-> p]
    ELSE IF ~SearchHasMoreResults(response) THEN [ipc |-> "done", params |-> p]
    ELSE [ipc |-> "fetch", params |-> IterAdvance(p, response)]

CurrentPage == pages[Len(pages)]

IterParams == {SearchParams(0, 2), SearchParams(0, MaxResultsLimit + 1)}
IterInterceptors == {<<>>, <<"fail">>, <<"mutate">>}

Traversal(kind, first) == [kind |-> kind, first |-> first]

InitIter ==
    /\ interceptors \in IterInterceptors
    /\ retryConfig = NoRetryConfig
    /\ hasLimiter \in BOOLEAN
    /\ args \in {[fn |-> "SearchIter", params |-> p] : p \in IterParams}
    /\ callerParams = args.params
    /\ params = ZeroParams
    /\ nav = "iter"
    /\ navPage = NoPage
    /\ InitCall
    /\ InitNoQuery
    /\ ipc = "fetch"
    /\ cursor = 0
    /\ yielded = <<>>
    /\ pages = <<>>
    /\ stopped = FALSE
    /\ traversals = <<Traversal("call", 1)>>
    /\ fpc = "off"
    /\ ret = <<>>

(***************************************************************************)
(* The top of the loop: c.Search(ctx, params), a new call of the pipeline. *)
(***************************************************************************)
IterSearch ==
    /\ ipc = "fetch"
    /\ pc = "idle"
    /\ Len(searches) < MaxFetches
    /\ SearchCall(callerParams)
    /\ ipc' = "search"
    /\ attempt' = 0
    /\ lastResponse' = NoResponse
    /\ lastErr' = NoErr
    /\ backoff' = 0
    /\ parked' = FALSE
    /\ UNCHANGED <<config, ctx, openBodies, exchanges, events, result, cancelledAt,
                   callerParams, waits, navVars, queryVars, cursor, yielded, pages, stopped,
                   traversals, fnVars>>

(***************************************************************************)
(* Search has returned: on an error the sequence returns; otherwise the    *)
(* range loop over the entries of the page starts.                         *)
(***************************************************************************)
IterReceive ==
    /\ ipc = "search"
    /\ pc = "done"
    /\ pc' = "idle"
    /\ IF result.err # NoErr
       THEN /\ ipc' = OnSearchError
            /\ UNCHANGED <<callerParams, pages, cursor>>
       ELSE /\ pages' = Append(pages, result.page)
            /\ cursor' = 0
            /\ ipc' = Continue(result.page, 0, callerParams).ipc
            /\ callerParams' = Continue(result.page, 0, callerParams).params
    /\ UNCHANGED <<config, ctx, chain, level, params, loopVars, openBodies, exchanges, events,
                   result, cancelledAt, received, searches, waits, navVars, queryVars,
                   yielded, stopped, traversals, fnVars>>

(***************************************************************************)
(* yield(entry): the consumer's loop body runs and continues or breaks.    *)
(***************************************************************************)
IterYield ==
    /\ ipc = "yield"
    /\ yielded' = Append(yielded, CurrentPage.Entries[cursor + 1])
    /\ cursor' = cursor + 1
    /\ \E ok \in BOOLEAN :
          /\ stopped' = ~ok
          /\ ipc' = YieldResult(ok, Continue(CurrentPage, cursor + 1, callerParams).ipc)
          /\ callerParams' = IF ipc' = "fetch"
                             THEN Continue(CurrentPage, cursor + 1, callerParams).params
                             ELSE callerParams
    /\ UNCHANGED <<config, ctx, pc, chain, level, params, loopVars, openBodies, exchanges,
                   events, result, cancelledAt, received, searches, waits, navVars, queryVars,
                   pages, traversals, fnVars>>

NextIter ==
    \/ IterSearch
    \/ IterReceive
    \/ IterYield
    \/ Cancel
    \/ InterceptorCall
    \/ InterceptorReturn
    \/ SearchReturn
    \/ DoSearch
    \/ RateLimit
    \/ Request

SpecIter == InitIter /\ [][NextIter]_vars

(***************************************************************************)
(* A traversal has ended and the caller ranges again: over the sequence    *)
(* value it holds, whose closure keeps the params variable it captured, or *)
(* over the value of a new SearchIter call, which gets a copy of the       *)
(* call's params.                                                          *)
(***************************************************************************)
MaxTraversals == 2

capturedParams_copied(current, initial) == initial

capturedParams(current, initial) == current

Traverse(kind, p) ==
    /\ ipc = "done"
    /\ pc = "idle"
    /\ Len(traversals) < MaxTraversals
    /\ callerParams' = p
    /\ traversals' = Append(traversals, Traversal(kind, Len(searches) + 1))
    /\ ipc' = "fetch"
    /\ cursor' = 0
    /\ yielded' = <<>>
    /\ pages' = <<>>
    /\ stopped' = FALSE
    /\ UNCHANGED <<config, ctx, pc, chain, level, params, loopVars, openBodies, exchanges,
                   events, result, cancelledAt, received, searches, waits, navVars, queryVars,
                   fnVars>>

TraverseAgain == Traverse("again", capturedParams(callerParams, args.params))

SearchIterAgain == Traverse("call", args.params)

InitIterAgain ==
    /\ InitIter
    /\ interceptors = <<>>
    /\ ~hasLimiter

NextIterAgain ==
    \/ IterSearch
    \/ IterReceive
    \/ IterYield
    \/ TraverseAgain
    \/ SearchIterAgain
    \/ Cancel
    \/ SearchReturn
    \/ DoSearch
    \/ RateLimit
    \/ Request

SpecIterAgain == InitIterAgain /\ [][NextIterAgain]_vars

(***************************************************************************)
(* Vocabulary of the SearchIter claims.                                    *)
(***************************************************************************)
RECURSIVE Concat(_, _)
Concat(ps, n) == IF n = 0 THEN <<>> ELSE Concat(ps, n - 1) \o ps[n].Entries

AllEntries == Concat(pages, Len(pages))
IsPrefix(x, y) == Len(x) <= Len(y) /\ \A i \in 1..Len(x) : x[i] = y[i]
Ended == ipc = "done"
FullyConsumed == Ended /\ ~stopped
SearchFailed == ipc # "search" /\ result.err # NoErr

\* C21: a fully consumed sequence yields the entries of the first fetched
\* page in order, then those of the second, and so on, none skipped or
\* repeated; the first fetch uses the initial params and every later fetch
\* the same params with Start = StartIndex + ItemsPerPage of the page just
\* returned.
IterYieldsPagesInOrder ==
    /\ IsPrefix(yielded, AllEntries)
    /\ FullyConsumed => yielded = AllEntries
    /\ Len(searches) >= 1 => searches[1] = args.params
    /\ \A j \in 2..Len(searches) :
          /\ searches[j].MaxResults = args.params.MaxResults
          /\ searches[j].Start = pages[j - 1].StartIndex + pages[j - 1].ItemsPerPage

IterYieldsPagesInOrderWitness ==
    /\ FullyConsumed
    /\ Len(pages) = 3
    /\ pages[1].Entries = <<1, 2>>
    /\ pages[2].StartIndex = 0
    /\ pages[2].ItemsPerPage = 2
    /\ pages[2].Entries = <<1, 2>>
    /\ yielded = <<1, 2, 1, 2>>
    /\ searches[2].Start = 2
    /\ searches[3].Start = 2

\* C22: if a Search of the sequence returns an error (validation,
\* transport, decode, interceptor or cancellation), the sequence ends after
\* the entries already yielded, the consumer is told nothing, and no
\* further fetch is made.
IterEndsOnError ==
    SearchFailed =>
        /\ Ended
        /\ pc = "idle"
        /\ ~stopped
        /\ yielded = AllEntries
        /\ Len(searches) = Len(pages) + 1

IterEndsOnErrorWitness ==
    /\ SearchFailed
    /\ result.err = DecodeErr
    /\ Len(searches) = 2
    /\ yielded = <<1, 2>>

\* C23: a page is fetched only when the consumer asks for an entry and
\* every entry of the pages fetched so far has been yielded; once the
\* consumer has stopped no further Search is made, so stopping within
\* page p leaves exactly p fetches.
IterFetchesLazily ==
    /\ ipc \in {"fetch", "search"} => ~stopped /\ yielded = AllEntries
    /\ Len(searches) <= Len(pages) + 1
    /\ stopped =>
          /\ Ended
          /\ pc = "idle"
          /\ Len(searches) = Len(pages)
          /\ cursor >= 1
          /\ Len(yielded) = Len(Concat(pages, Len(pages) - 1)) + cursor

IterFetchesLazilyWitness ==
    /\ stopped
    /\ Len(pages) = 2
    /\ Len(searches) = 2
    /\ cursor = 1
    /\ Len(CurrentPage.Entries) = 2
    /\ SearchHasMoreResults(CurrentPage)

\* C24: the sequence is finite when the remote reports a finite
\* TotalResults on every page: every fetch moves the cursor forward, so the
\* fetches end, and at most TotalResults entries are yielded.
IterFiniteForFiniteTotals ==
    /\ \A j \in 2..Len(searches) : searches[j].Start > searches[j - 1].Start
    /\ pages # <<>> => Len(yielded) <= CurrentPage.TotalResults

(***************************************************************************)
(* The functions of the request pipeline that depend on their arguments    *)
(* only: SearchParams.Validate, isRetryableError and calculateBackoff.     *)
(* One behaviour of SpecFn is one call of one of them.                     *)
(***************************************************************************)
MaxBackoffAttempt == 10

ValidateStarts == {-1, 0, 1, StartLimit, StartLimit + 1}
ValidateMaxResults == {-1, 0, 10, MaxResultsLimit, MaxResultsLimit + 1}
ValidateArgs ==
    {[fn |-> "Validate", p |-> SearchParams(st, m)] : st \in ValidateStarts, m \in ValidateMaxResults}

PlainErr == Err("errors.New", 0)
ErrorValues ==
    {NoErr, CtxErr("deadline"), CtxErr("cancelled"), UrlErr("deadline"), UrlErr("cancelled"),
     TimeoutErr, FatalErr, PlainErr}
ResponseValues ==
    {NoResponse} \cup {Response(st, TRUE) : st \in RetryableStatuses \cup {200, 201, 400, 404}}
RetryableArgs ==
    {[fn |-> "isRetryableError", err |-> e, response |-> r] : e \in ErrorValues, r \in ResponseValues}

Multipliers == {Rat(2, 1), Rat(3, 2), Rat(1, 1), Rat(1, 2), Rat(0, 1)}
DocumentedPolicy == RetryConfig(3, 1000, 30000, Rat(2, 1))
TestedCapPolicy == RetryConfig(3, 1000, 10000, Rat(2, 1))
BackoffPolicies ==
    {NoRetryConfig, DocumentedPolicy, TestedCapPolicy} \cup
    {RetryConfig(3, i, x, m) : i \in {-10, 0, 5, 10}, x \in {0, 40}, m \in Multipliers}
BackoffArgs ==
    {[fn |-> "calculateBackoff", attempt |-> a, config |-> cfg, rand |-> k] :
        a \in (-1)..MaxBackoffAttempt, cfg \in BackoffPolicies, k \in JitterSamples}

(***************************************************************************)
(* NewClient and its options.  A limiter or an HTTP client is either one   *)
(* the caller made (given, with a name) or one NewClient makes (from the   *)
(* RateLimit, or with the Timeout).  RateLimit counts nanoseconds, Timeout *)
(* seconds.                                                                *)
(***************************************************************************)
MaxOptions == 2
DefaultRateLimit == 3
DefaultTimeout == 10

NoLimiter == [kind |-> "nil", name |-> "", every |-> 0]
GivenLimiter(l) == [kind |-> "given", name |-> l, every |-> 0]
NewLimiter(every) == [kind |-> "new", name |-> "", every |-> every]
NoHTTPClient == [kind |-> "nil", name |-> "", Timeout |-> 0]
GivenHTTPClient(h) == [kind |-> "given", name |-> h, Timeout |-> 0]
NewHTTPClient(timeout) == [kind |-> "new", name |-> "", Timeout |-> timeout]

DurationOption(o, d) == [option |-> o, duration |-> d, httpClient |-> NoHTTPClient, rateLimiter |-> NoLimiter]
HTTPClientOption(h) == [option |-> "WithHTTPClient", duration |-> 0, httpClient |-> h, rateLimiter |-> NoLimiter]
RateLimiterOption(l) == [option |-> "WithRateLimiter", duration |-> 0, httpClient |-> NoHTTPClient, rateLimiter |-> l]

WithTimeout(c, timeout) == [c EXCEPT !.Timeout = timeout]
WithRateLimit(c, rateLimit) == [c EXCEPT !.RateLimit = rateLimit]
WithHTTPClient(c, httpClient) == [c EXCEPT !.httpClient = httpClient]
WithRateLimiter(c, rateLimiter) == [c EXCEPT !.rateLimiter = rateLimiter]

ApplyOption(option, c) ==
    CASE option.option = "WithTimeout" -> WithTimeout(c, option.duration)
      [] option.option = "WithRateLimit" -> WithRateLimit(c, option.duration)
      [] option.option = "WithHTTPClient" -> WithHTTPClient(c, option.httpClient)
      [] OTHER -> WithRateLimiter(c, option.rateLimiter)

RECURSIVE ApplyOptions(_, _)
ApplyOptions(options, c) ==
    IF options = <<>> THEN c ELSE ApplyOptions(Tail(options), ApplyOption(Head(options), c))

NewClient(options) ==
    LET client == ApplyOptions(options,
                               [RateLimit |-> DefaultRateLimit, Timeout |-> DefaultTimeout,
                                httpClient |-> NoHTTPClient, rateLimiter |-> NoLimiter])
        limited == IF client.RateLimit > 0
                   THEN [client EXCEPT !.rateLimiter = NewLimiter(client.RateLimit)]
                   ELSE client
    IN  [limited EXCEPT !.httpClient = NewHTTPClient(client.Timeout)]

ClientOptions ==
    {DurationOption("WithTimeout", 7), DurationOption("WithRateLimit", 0),
     DurationOption("WithRateLimit", 5), HTTPClientOption(GivenHTTPClient("h")),
     RateLimiterOption(GivenLimiter("l")), RateLimiterOption(GivenLimiter("m"))}

OptionLists == UNION {[1..n -> ClientOptions] : n \in 0..MaxOptions}

NewClientArgs == {[fn |-> "NewClient", options |-> os] : os \in OptionLists}

InitFn ==
    /\ interceptors = <<>>
    /\ retryConfig = NoRetryConfig
    /\ hasLimiter = FALSE
    /\ callerParams = ZeroParams
    /\ params = ZeroParams
    /\ nav = "none"
    /\ navPage = NoPage
    /\ InitCall
    /\ InitNoQuery
    /\ InitNoIter
    /\ fpc = "call"
    /\ args \in ValidateArgs \cup RetryableArgs \cup BackoffArgs \cup NewClientArgs
    /\ ret = <<>>

CallValidate ==
    /\ fpc = "call"
    /\ args.fn = "Validate"
    /\ ret' = Validate(args.p)
    /\ fpc' = "returned"
    /\ UNCHANGED <<callVars, navVars, queryVars, iterVars, args>>

CallIsRetryableError ==
    /\ fpc = "call"
    /\ args.fn = "isRetryableError"
    /\ ret' = isRetryableError(args.err, args.response)
    /\ fpc' = "returned"
    /\ UNCHANGED <<callVars, navVars, queryVars, iterVars, args>>

CallCalculateBackoff ==
    /\ fpc = "call"
    /\ args.fn = "calculateBackoff"
    /\ ret' = [value |-> calculateBackoff(args.attempt, args.config, args.rand),
               beforeJitter |-> IF ~args.config.set \/ args.attempt <= 0 THEN Rat(0, 1)
                                ELSE backoffBeforeJitter(args.attempt, args.config)]
    /\ fpc' = "returned"
    /\ UNCHANGED <<callVars, navVars, queryVars, iterVars, args>>

CallNewClient ==
    /\ fpc = "call"
    /\ args.fn = "NewClient"
    /\ ret' = NewClient(args.options)
    /\ fpc' = "returned"
    /\ UNCHANGED <<callVars, navVars, queryVars, iterVars, args>>

NextFn == CallValidate \/ CallIsRetryableError \/ CallCalculateBackoff \/ CallNewClient

SpecFn == InitFn /\ [][NextFn]_vars

(***************************************************************************)
(* Vocabulary of the function claims.                                      *)
(***************************************************************************)
Returned(f) == fpc = "returned" /\ args.fn = f
MaxResultsErr == Err("maxResults cannot exceed 2000", 0)
StartErr == Err("start cannot exceed 30000", 0)

\* C25: Validate returns an error exactly when MaxResults > 2000 or
\* Start > 30000, the MaxResults error when both hold; zero and negative
\* values are accepted.
ValidateRejectsOnlyAboveLimits ==
    Returned("Validate") =>
        LET p == args.p
        IN  /\ ret # NoErr <=> (p.MaxResults > MaxResultsLimit \/ p.Start > StartLimit)
            /\ p.MaxResults > MaxResultsLimit => ret = MaxResultsErr
            /\ p.MaxResults <= MaxResultsLimit /\ p.Start > StartLimit => ret = StartErr
            /\ p.MaxResults <= 0 /\ p.Start <= 0 => ret = NoErr

ValidateRejectsOnlyAboveLimitsWitness ==
    /\ Returned("Validate")
    /\ args.p.MaxResults > MaxResultsLimit
    /\ args.p.Start > StartLimit
    /\ ret = MaxResultsErr

\* C27: isRetryableError is true exactly for a deadline or temporary
\* network error, or a response with status 408, 429, 500, 502, 503 or 504;
\* it is false for a success status, any other client error status, an
\* error that is neither with no response, and when both are absent.
DeadlineOrTemporary(err) ==
    err \in {CtxErr("deadline"), UrlErr("deadline"), TimeoutErr}

RetryableResponse(response) ==
    response.present /\ response.status \in {408, 429, 500, 502, 503, 504}

RetryableExactly ==
    Returned("isRetryableError") =>
        /\ ret <=> (DeadlineOrTemporary(args.err) \/ RetryableResponse(args.response))
        /\ args.err = NoErr /\ ~args.response.present => ~ret
        /\ args.err = NoErr /\ args.response.present
              /\ args.response.status \in {200, 201, 400, 404} => ~ret
        /\ args.err \in {PlainErr, FatalErr, CtxErr("cancelled"), UrlErr("cancelled")}
              /\ ~args.response.present => ~ret

RetryableExactlyWitness ==
    /\ Returned("isRetryableError")
    /\ args.err = PlainErr
    /\ ~args.response.present
    /\ ret = FALSE

(***************************************************************************)
(* c = min(MaxInterval, InitialInterval * Multiplier^(attempt-1)), as the  *)
(* claims define it, and the band of 10% around it.                        *)
(***************************************************************************)
CappedInterval(a, cfg) ==
    LET n == cfg.InitialInterval * Pow(cfg.Multiplier.num, a - 1)
        d == Pow(cfg.Multiplier.den, a - 1)
    IN  IF n <= cfg.MaxInterval * d THEN Rat(n, d) ELSE Rat(cfg.MaxInterval, 1)

WithinTenPercent(v, c) ==
    IF c.num >= 0
    THEN 9 * c.num <= 10 * v * c.den /\ 10 * v * c.den <= 11 * c.num
    ELSE 11 * c.num <= 10 * v * c.den /\ 10 * v * c.den <= 9 * c.num

WithinTenPercentTruncated(v, c) ==
    IF c.num >= 0
    THEN 9 * c.num - 10 * c.den < 10 * v * c.den /\ 10 * v * c.den <= 11 * c.num
    ELSE 11 * c.num <= 10 * v * c.den /\ 10 * v * c.den < 9 * c.num + 10 * c.den

BackoffIsZero ==
    Returned("calculateBackoff") /\ (~args.config.set \/ args.attempt <= 0) => ret.value = 0

SleepUsesAttempt ==
    pc = "backoff" =>
        /\ attempt = Len(exchanges)
        /\ WithinTenPercentTruncated(backoff, CappedInterval(attempt, retryConfig))

BackoffOf(cfg, a) == Returned("calculateBackoff") /\ args.config = cfg /\ args.attempt = a

Between(v, lo, hi) == lo <= v /\ v <= hi

\* C29 as stated: for {initial = 1s, max = 30s, multiplier = 2.0} every
\* backoff(1) lies in [900ms, 1100ms], every backoff(3) in [3.6s, 4.4s] and
\* every backoff(10) in [9s, 11s].
DocumentedBackoffBands ==
    /\ BackoffOf(DocumentedPolicy, 1) => Between(ret.value, 900, 1100)
    /\ BackoffOf(DocumentedPolicy, 3) => Between(ret.value, 3600, 4400)
    /\ BackoffOf(DocumentedPolicy, 10) => Between(ret.value, 9000, 11000)

\* C29 amended: for {initial = 1s, max = 30s, multiplier = 2.0} every
\* backoff(1) lies in [900ms, 1100ms], every backoff(3) in [3.6s, 4.4s] and
\* every backoff(10) in [27s, 33s]; the band [9s, 11s] is that of
\* backoff(10) for the policy with max = 10s.
DocumentedBackoffBandsCapped ==
    /\ BackoffOf(DocumentedPolicy, 1) => Between(ret.value, 900, 1100)
    /\ BackoffOf(DocumentedPolicy, 3) => Between(ret.value, 3600, 4400)
    /\ BackoffOf(DocumentedPolicy, 10) => Between(ret.value, 27000, 33000)
    /\ BackoffOf(TestedCapPolicy, 10) => Between(ret.value, 9000, 11000)

DocumentedBackoffBandsCappedWitness ==
    /\ BackoffOf(DocumentedPolicy, 10)
    /\ ret.value > 11000
    /\ ret.beforeJitter = Rat(30000, 1)

(***************************************************************************)
(* The value of calculateBackoff before the jitter is added.               *)
(***************************************************************************)
AtMost(x, y) == x.num * y.den <= y.num * x.den

PolicyInDomain(cfg) ==
    /\ cfg.set
    /\ cfg.InitialInterval > 0
    /\ cfg.MaxInterval >= cfg.InitialInterval
    /\ cfg.Multiplier.num > 0

GrowsAndStaysCapped ==
    /\ AtMost(ret.beforeJitter, CappedInterval(args.attempt + 1, args.config))
    /\ AtMost(ret.beforeJitter, Rat(args.config.MaxInterval, 1))

\* C30 as stated: for every policy with InitialInterval > 0, MaxInterval >=
\* InitialInterval and Multiplier > 0 the value before jitter is monotonic
\* non-decreasing in attempt for attempt >= 1 and never exceeds MaxInterval.
BeforeJitterMonotonic ==
    Returned("calculateBackoff") /\ args.attempt >= 1 /\ PolicyInDomain(args.config) =>
        GrowsAndStaysCapped

\* C30 amended: for every policy with InitialInterval > 0, MaxInterval >=
\* InitialInterval and Multiplier >= 1 the value before jitter is monotonic
\* non-decreasing in attempt for attempt >= 1 and never exceeds MaxInterval.
BeforeJitterMonotonicFromOne ==
    Returned("calculateBackoff") /\ args.attempt >= 1 /\ PolicyInDomain(args.config)
        /\ args.config.Multiplier.num >= args.config.Multiplier.den =>
        GrowsAndStaysCapped

BeforeJitterMonotonicFromOneWitness ==
    /\ Returned("calculateBackoff")
    /\ args.attempt > 1
    /\ PolicyInDomain(args.config)
    /\ args.config.Multiplier = Rat(3, 2)
    /\ ret.beforeJitter = Rat(args.config.MaxInterval, 1)
    /\ ~AtMost(ret.beforeJitter, CappedInterval(args.attempt - 1, args.config))

(***************************************************************************)
(* C31: MaxAttempts is the maximum number of retries: with MaxAttempts =   *)
(* n > 0, a live context and a transport whose every exchange fails        *)
(* retryably, the exchange is re-issued n times after the first one; with  *)
(* MaxAttempts = 0 it is never re-issued.                                  *)
(***************************************************************************)
Retries == NumExchanges - 1

MaxAttemptsCountsRetries ==
    ( /\ Done
      /\ ctx = "active"
      /\ CoreEntered
      /\ NumExchanges >= 1
      /\ retryConfig.set
      /\ \A k \in DOMAIN exchanges : RetryableOutcome(exchanges[k]) )
    => /\ retryConfig.MaxAttempts > 0 => Retries = retryConfig.MaxAttempts
       /\ retryConfig.MaxAttempts = 0 => Retries = 0

(***************************************************************************)
(* Vocabulary of the parser claims: the tokens of the string parsed.       *)
(***************************************************************************)
RawParsed == qpc = "rawparsed"
Tokens == tokenizeQuery(wire)
BareWord(token) == ~Contains(token, ":") /\ ~isOperator(token)
OpensBracket(token) ==
    HasPrefix(token, fieldSubmittedDate \o <<":", "[">>) /\ ~Contains(token, "]")

\* C32: ParseSearchQuery returns an error for every input with a token
\* that is neither an operator, a field:value term nor a date range, such
\* as a bare word without a colon; no such token is silently dropped.
BareWordRejected ==
    RawParsed /\ (\E k \in DOMAIN Tokens : BareWord(Tokens[k])) => ~parsed.ok

\* C33: ParseSearchQuery returns an error for every input in which a
\* bracket of a date range is opened and never closed.
UnterminatedBracketRejected ==
    RawParsed /\ (\E k \in DOMAIN Tokens : OpensBracket(Tokens[k])) => ~parsed.ok

(***************************************************************************)
(* Vocabulary of the tokenizer claim.  ValueSpaces are the positions of    *)
(* the spaces the tokenizer meets inside a field value, outside            *)
(* parentheses and brackets; Before(i) is the tokenizer's state when it    *)
(* reaches position i.  WordAfter(i, delims) is the word that follows      *)
(* position i: leading spaces skipped, then up to the next byte of delims. *)
(***************************************************************************)
Before(i) == tokenizeLoop(wire, i - 1, TokenizerStart)

ValueSpaces ==
    {i \in DOMAIN wire :
        /\ wire[i] = " "
        /\ Before(i).inFieldValue
        /\ Before(i).inParens = 0
        /\ ~Before(i).inBrackets}

EndsToken(i) ==
    LET st == Before(i)
        after == tokenizeStep(wire, st)
    IN  /\ after.current = <<>>
        /\ after.tokens = IF st.current = <<>> THEN st.tokens ELSE Append(st.tokens, st.current)

JoinsValue(i) ==
    LET st == Before(i)
        after == tokenizeStep(wire, st)
    IN  after.current = Append(st.current, " ") /\ after.tokens = st.tokens

WordAfter(i, delims) ==
    LET rest == SubSeq(wire, i + 1, Len(wire))
        first == CHOOSE k \in 1..(Len(rest) + 1) :
                     /\ \A j \in 1..(k - 1) : rest[j] = " "
                     /\ k <= Len(rest) => rest[k] # " "
        last == CHOOSE k \in (first - 1)..Len(rest) :
                     /\ \A j \in first..k : rest[j] \notin delims
                     /\ k < Len(rest) => rest[k + 1] \in delims
    IN  SubSeq(rest, first, last)

SplitsAt(word) == ToUpper(word) \in {opAnd, opOr, opAndNot} \/ Contains(word, ":")

QuantumComputing ==
    <<"t", "i", ":", "q", "u", "a", "n", "t", "u", "m", " ", "c", "o", "m", "p", "u", "t", "i", "n", "g",
      " ", "A", "N", "D", " ", "c", "a", "t", ":", "q", "u", "a", "n", "t", "-", "p", "h">>

QuantumComputingNodes ==
    <<fieldQuery(fieldTitle, SubSeq(QuantumComputing, 4, 20)), operatorNode(opAnd),
      fieldQuery(fieldCategory, SubSeq(QuantumComputing, 30, 37))>>

ExampleParsesToThreeNodes ==
    RawParsed /\ wire = QuantumComputing => parsed.ok /\ parsed.nodes = QuantumComputingNodes

(***************************************************************************)
(* The rule of the claim at position i of the string tokenized, for the    *)
(* next word delimited by delims.                                          *)
(***************************************************************************)
Spaces == {i \in DOMAIN wire : wire[i] = " "}
Tokenized == qpc \in {"parsed", "rawparsed"}

SpaceRule(i, delims) ==
    LET st == Before(i)
        after == tokenizeStep(wire, st)
        ends == /\ after.current = <<>>
                /\ after.tokens = IF st.current = <<>> THEN st.tokens
                                  ELSE Append(st.tokens, st.current)
        joins == after.current = Append(st.current, " ") /\ after.tokens = st.tokens
    IN  st.inFieldValue /\ st.inParens = 0 /\ ~st.inBrackets =>
            /\ ends <=> SplitsAt(WordAfter(i, delims))
            /\ ~ends => joins

\* C37 as stated: a space inside a field value ends the current token if
\* and only if the next whitespace-delimited word is an operator in any
\* letter case or contains a colon; otherwise it joins the value.
SpaceSplitsOnWhitespaceWord ==
    /\ Tokenized => \A i \in Spaces : SpaceRule(i, {" "})
    /\ ExampleParsesToThreeNodes

\* C37, amended: a space inside a field value ends the current token if
\* and only if the next word, which ends at the next space or parenthesis,
\* is an operator in any letter case or contains a colon; otherwise the
\* space joins the value; the example parses to its three nodes.
SpaceSplitsOnNextWord ==
    /\ Tokenized => \A i \in Spaces : SpaceRule(i, {" ", "(", ")"})
    /\ ExampleParsesToThreeNodes

SpaceSplitsOnNextWordWitness ==
    /\ RawParsed
    /\ \E i \in ValueSpaces :
          /\ SplitsAt(WordAfter(i, {" "}))
          /\ ~SplitsAt(WordAfter(i, {" ", "(", ")"}))
          /\ JoinsValue(i)
    /\ \E i \in ValueSpaces : EndsToken(i) /\ Tokens # <<>>

(***************************************************************************)
(* Vocabulary of the Group claim.  AddsNode(body) says that the calls of   *)
(* body add a node to an empty sub-builder: one of them is a field or date *)
(* call, or a Group call whose own body adds a node (an operator call adds *)
(* a node only after one is there).                                        *)
(***************************************************************************)
RECURSIVE AddsNode(_)
AddsNode(body) ==
    \E k \in DOMAIN body :
        /\ body[k].method \notin {"And", "Or", "AndNot"}
        /\ body[k].method = "Group" => AddsNode(body[k].body)

RECURSIVE NoEmptyGroup(_)
NoEmptyGroup(q) ==
    \A k \in DOMAIN q :
        q[k].type = "groupQuery" => Len(q[k].nodes) > 0 /\ NoEmptyGroup(q[k].nodes)

IsGroupCall(call) == call.method = "Group"

\* C38: Group(fn) appends a group node if and only if fn added a node to
\* the sub-builder; a Group call that adds nothing leaves the builder
\* unchanged, and no group node without children is ever in the builder.
GroupAppendsIffNonEmpty ==
    /\ NoEmptyGroup(nodes)
    /\ qpc = "build" /\ calls # <<>> /\ IsGroupCall(LastCall) =>
          IF AddsNode(LastCall.body)
          THEN /\ Len(nodes) = Len(BuilderBefore) + 1
               /\ SubSeq(nodes, 1, Len(BuilderBefore)) = BuilderBefore
               /\ nodes[Len(nodes)].type = "groupQuery"
          ELSE nodes = BuilderBefore

GroupAppendsIffNonEmptyWitness ==
    /\ qpc = "build"
    /\ Len(calls) = 3
    /\ IsGroupCall(calls[1]) /\ calls[1].body # <<>> /\ ~AddsNode(calls[1].body)
    /\ IsGroupCall(calls[2]) /\ AddsNode(calls[2].body)
    /\ IsGroupCall(calls[3]) /\ calls[3].body = <<>>
    /\ Len(nodes) = 1
    /\ nodes[1].type = "groupQuery"

(***************************************************************************)
(* Vocabulary of the options claim: the last option of a kind in the list  *)
(* passed to NewClient.                                                    *)
(***************************************************************************)
OptionsAt(kinds) == {k \in DOMAIN args.options : args.options[k].option \in kinds}
Passed(kinds) == OptionsAt(kinds) # {}
LastOption(kinds) ==
    args.options[CHOOSE k \in OptionsAt(kinds) : \A j \in OptionsAt(kinds) : j <= k]

\* C34: every option passed to NewClient takes effect and the last of
\* conflicting options wins: when the last rate option is WithRateLimiter(l)
\* the client throttles with l, and after WithHTTPClient(h) it issues its
\* exchanges through h.
OptionsTakeEffect ==
    Returned("NewClient") =>
        /\ ( /\ Passed({"WithRateLimit", "WithRateLimiter"})
             /\ LastOption({"WithRateLimit", "WithRateLimiter"}).option = "WithRateLimiter" )
           => ret.rateLimiter = LastOption({"WithRateLimiter"}).rateLimiter
        /\ Passed({"WithHTTPClient"}) => ret.httpClient = LastOption({"WithHTTPClient"}).httpClient

(***************************************************************************)
(* Vocabulary of the claims about response bodies and the rate limiter.    *)
(* CoreReturned: doSearch has just returned to the innermost interceptor   *)
(* (or to Search).  Delivered counts the responses the transport gave.     *)
(***************************************************************************)
CoreReturned == pc = "return" /\ level = Len(chain) /\ CoreEntered
Delivered == Cardinality({k \in DOMAIN exchanges : exchanges[k].response.present})
InLoop == pc \in {"ratelimit", "request", "backoff"}

\* C35: within one Search call the response of a failed retryable attempt
\* is closed before the backoff sleep, the rate-limiter wait and the
\* exchange of the next attempt start, so at most one body is open at any
\* time.
RetriedBodyClosedBeforeNextAttempt ==
    /\ InLoop => openBodies = 0
    /\ openBodies \in {0, 1}

RetriedBodyClosedBeforeNextAttemptWitness ==
    /\ pc = "request"
    /\ NumExchanges = 2
    /\ \A k \in DOMAIN exchanges : exchanges[k].response.present
    /\ lastResponse.present
    /\ openBodies = 0

\* C36: on a client with a rate limiter every exchange, each retried one
\* included, is preceded by its own successful wait, taken after the sleep
\* of the previous attempt; when the wait fails the call returns the
\* wait's error and the exchange is not issued.
WaitPrecedesEveryExchange ==
    hasLimiter =>
        /\ waits \in {NumExchanges, NumExchanges + 1}
        /\ pc = "request" => waits = NumExchanges + 1
        /\ pc = "backoff" => waits = NumExchanges
        /\ CoreReturned => (waits = NumExchanges + 1 <=> result.err = WaitErr)
        /\ CoreReturned /\ result.err = WaitErr => result.page = EmptyResults

WaitPrecedesEveryExchangeWitness ==
    /\ hasLimiter
    /\ CoreReturned
    /\ NumExchanges = 2
    /\ waits = 3
    /\ result.err = WaitErr

\* C39: by the time Search returns, every response the transport delivered
\* during the call has been closed, and none more than once: on success,
\* exhausted retries, a non-retryable status, a decode error, a failed
\* wait and a cancelled sleep.
EveryBodyClosedOnReturn ==
    /\ openBodies >= 0
    /\ Done \/ CoreReturned => openBodies = 0

EveryBodyClosedOnReturnWitness ==
    /\ Done
    /\ NumExchanges >= 2
    /\ Delivered = NumExchanges
    /\ result.err = DecodeErr
    /\ openBodies = 0

(***************************************************************************)
(* Vocabulary of the traversal claim: FirstFetched(t), the t-th traversal  *)
(* has made its first Search; FirstFetch(t), the params of that Search;    *)
(* LastFetchBefore(t), the params of the last Search made before it.       *)
(***************************************************************************)
FirstFetched(t) == traversals[t].first <= Len(searches)
FirstFetch(t) == searches[traversals[t].first]
LastFetchBefore(t) == searches[traversals[t].first - 1]

\* C40: a second traversal of the same sequence value makes its first
\* fetch at the Start the earlier traversal assigned last, which is the
\* Start of the last page that traversal fetched, and a new SearchIter
\* call with the same params makes its first fetch at the params' Start.
CursorSurvivesTraversal ==
    \A t \in DOMAIN traversals :
        FirstFetched(t) =>
            IF traversals[t].kind = "again"
            THEN FirstFetch(t).Start = LastFetchBefore(t).Start
            ELSE FirstFetch(t).Start = args.params.Start

CursorSurvivesTraversalWitness ==
    /\ Len(traversals) = 2
    /\ traversals[2].kind = "again"
    /\ FirstFetched(2)
    /\ FirstFetch(2).Start # args.params.Start
    /\ FirstFetch(2).Start = LastFetchBefore(2).Start

====
